---------------------------- MODULE Spec2Model ----------------------------
(***************************************************************************)
(* Model of the spacebattleship engine: rectangular geometry, the Line     *)
(* ship shape, BoardSetup / Board, and the uniform GameSetup / Game.       *)
(*                                                                         *)
(* Rust's Option<T> is modelled as a sequence: <<>> is None, <<v>> is      *)
(* Some(v).  A coordinate is the pair <<x, y>>; a ShapeProjection is a     *)
(* sequence of coordinates (a Vec).  A HashMap is a function whose domain  *)
(* is the key set.                                                         *)
(***************************************************************************)
EXTENDS Integers, Sequences, FiniteSets, TLC

VARIABLES
    board,       \* a standalone BoardSetup (bphase = "setup") or Board ("play")
    bphase,      \* which of the two types the standalone board currently is
    game,        \* a GameSetup (gphase = "setup") or Game (gphase = "play")
    gphase,      \* which of the two types the game currently is
    result,      \* what the last call returned
    cli          \* the command line game: the human's player and who shot last

vars == <<board, bphase, game, gphase, result, cli>>

None == <<>>
Some(v) == <<v>>

\* Longest Line shape, and longest projection, offered as an input.
MaxLen == 3

(***************************************************************************)
(* Geometry: board/rectangular.rs, board/dimensions.rs                     *)
(***************************************************************************)

RectDimensions(w, h, wx, wy) ==
    [width |-> w, height |-> h, wrap_x |-> wx, wrap_y |-> wy]

check_bounds(dim, c) == c[1] < dim.width /\ c[2] < dim.height

total_size(dim) == dim.width * dim.height

\* un_linearize with the roles of width and height swapped.
un_linearize_by_height(dim, idx) == <<idx % dim.height, idx \div dim.height>>

try_linearize(dim, c) ==
    IF check_bounds(dim, c) THEN Some(c[2] * dim.width + c[1]) ELSE None

un_linearize(dim, idx) == <<idx % dim.width, idx \div dim.width>>

\* Dimensions::linearize: the index, or a panic when try_linearize is None.
linearize(dim, c) ==
    IF try_linearize(dim, c) = None THEN "panic" ELSE try_linearize(dim, c)[1]

\* One step of RectNeighbors::next: the coordinate the step yields, if any.
StepUp(dim, c) ==
    IF c[2] >= 1 THEN << <<c[1], c[2] - 1>> >>
    ELSE IF dim.wrap_y THEN << <<c[1], dim.height - 1>> >>
    ELSE <<>>

StepDown(dim, c) ==
    IF c[2] + 1 < dim.height THEN << <<c[1], c[2] + 1>> >>
    ELSE IF dim.wrap_y THEN << <<c[1], 0>> >>
    ELSE <<>>

StepLeft(dim, c) ==
    IF c[1] >= 1 THEN << <<c[1] - 1, c[2]>> >>
    ELSE IF dim.wrap_x THEN << <<dim.width - 1, c[2]>> >>
    ELSE <<>>

StepRight(dim, c) ==
    IF c[1] + 1 < dim.width THEN << <<c[1] + 1, c[2]>> >>
    ELSE IF dim.wrap_x THEN << <<0, c[2]>> >>
    ELSE <<>>

\* The neighbor iterator with the horizontal steps taken first.
neighbors_sides_first(dim, c) ==
    IF ~check_bounds(dim, c) THEN <<>>
    ELSE StepLeft(dim, c) \o StepRight(dim, c) \o StepUp(dim, c) \o StepDown(dim, c)

\* Everything the neighbor iterator yields for c, in order.
neighbors(dim, c) ==
    IF ~check_bounds(dim, c) THEN <<>>
    ELSE StepUp(dim, c) \o StepDown(dim, c) \o StepLeft(dim, c) \o StepRight(dim, c)

is_neighbor(dim, c1, c2) ==
    \E k \in 1..Len(neighbors(dim, c1)) : neighbors(dim, c1)[k] = c2

is_colinear(c1, c2, c3) ==
    LET difx == c1[1] # c2[1] \/ c2[1] # c3[1]
        dify == c1[2] # c2[2] \/ c2[2] # c3[2]
    IN  ~(difx /\ dify)

(***************************************************************************)
(* Line shape: ships/linear.rs                                             *)
(***************************************************************************)

\* Line::new: the shape is its length; assert!(len > 0) aborts the caller.
Line_new(len) == [panic |-> ~(len > 0), shape |-> len]

\* The loop of is_valid_placement from entry k on; previous is proj[k-1].
RECURSIVE ValidWalk(_, _, _)
ValidWalk(dim, proj, k) ==
    IF k > Len(proj) THEN TRUE
    ELSE IF is_neighbor(dim, proj[k], proj[k - 1])
            /\ is_colinear(proj[1], proj[k - 1], proj[k])
         THEN ValidWalk(dim, proj, k + 1)
         ELSE FALSE

\* is_valid_placement that takes two cells for adjacent only when they are one
\* plain step apart, never across a wrapped edge.
is_valid_placement_plain_adjacent(len, proj, dim) ==
    /\ Len(proj) = len
    /\ \A k \in 2..Len(proj) :
          /\ check_bounds(dim, proj[k]) /\ check_bounds(dim, proj[k - 1])
          /\ \/ proj[k][1] = proj[k - 1][1]
                /\ (proj[k][2] = proj[k - 1][2] + 1 \/ proj[k - 1][2] = proj[k][2] + 1)
             \/ proj[k][2] = proj[k - 1][2]
                /\ (proj[k][1] = proj[k - 1][1] + 1 \/ proj[k - 1][1] = proj[k][1] + 1)
          /\ is_colinear(proj[1], proj[k - 1], proj[k])

is_valid_placement(len, proj, dim) ==
    IF Len(proj) # len THEN FALSE ELSE ValidWalk(dim, proj, 2)

\* The 'outer loop of try_build_route: route and visited so far; last is the
\* last entry of route.  The first neighbor of last that is colinear with
\* start and dir and was not visited extends the route.
RECURSIVE BuildRoute(_, _, _, _, _, _)
BuildRoute(dim, len, start, dir, route, visited) ==
    IF Len(route) >= len THEN Some(route)
    ELSE LET ns   == neighbors(dim, route[Len(route)])
             good == {k \in 1..Len(ns) :
                         is_colinear(start, dir, ns[k]) /\ ns[k] \notin visited}
         IN  IF good = {} THEN None
             ELSE LET k == CHOOSE i \in good : \A j \in good : i <= j
                  IN  BuildRoute(dim, len, start, dir,
                                 Append(route, ns[k]), visited \cup {ns[k]})

\* try_build_route that extends the route by the first neighbor not visited,
\* colinear or not.
RECURSIVE BuildRouteAny(_, _, _, _, _, _)
BuildRouteAny(dim, len, start, dir, route, visited) ==
    IF Len(route) >= len THEN Some(route)
    ELSE LET ns   == neighbors(dim, route[Len(route)])
             good == {k \in 1..Len(ns) : ns[k] \notin visited}
         IN  IF good = {} THEN None
             ELSE LET k == CHOOSE i \in good : \A j \in good : i <= j
                  IN  BuildRouteAny(dim, len, start, dir,
                                    Append(route, ns[k]), visited \cup {ns[k]})

try_build_route_any_neighbor(dim, len, start, dir) ==
    BuildRouteAny(dim, len, start, dir, <<start, dir>>, {start, dir})

try_build_route(dim, len, start, dir) ==
    BuildRoute(dim, len, start, dir, <<start, dir>>, {start, dir})

\* What LineProjectIterState::next yields from direction k on, in order.
RECURSIVE ProjectFrom(_, _, _, _, _)
ProjectFrom(len, dim, start, directions, k) ==
    IF k > Len(directions) THEN <<>>
    ELSE LET route == try_build_route(dim, len, start, directions[k])
         IN  (IF route = None THEN <<>> ELSE <<route[1]>>)
                 \o ProjectFrom(len, dim, start, directions, k + 1)

\* Line::project: every projection the iterator yields for coord, in order.
project(len, dim, coord) ==
    IF len = 1 THEN << <<coord>> >>
    ELSE ProjectFrom(len, dim, coord, neighbors(dim, coord), 1)

(***************************************************************************)
(* Grid: board/grid.rs                                                     *)
(***************************************************************************)

GridCell_default == [ship |-> None, hit |-> FALSE]

Grid_new(dim) ==
    [dim |-> dim, cells |-> [i \in 0..(total_size(dim) - 1) |-> GridCell_default]]

\* Grid::get: Some(cell) or None.
Grid_get(grid, c) ==
    LET i == try_linearize(grid.dim, c)
    IN  IF i = None THEN None
        ELSE IF i[1] \in DOMAIN grid.cells THEN Some(grid.cells[i[1]]) ELSE None

\* grid[c].ship = s through IndexMut (only called on in-bounds coordinates).
Grid_set_ship(grid, c, s) ==
    LET i == try_linearize(grid.dim, c)[1]
    IN  [grid EXCEPT !.cells[i].ship = s]

\* grid[c].hit = TRUE through get_mut.
Grid_set_hit(grid, c) ==
    LET i == try_linearize(grid.dim, c)[1]
    IN  [grid EXCEPT !.cells[i].hit = TRUE]

(***************************************************************************)
(* BoardSetup: board/setup.rs                                              *)
(***************************************************************************)

\* BoardSetup::new.  ships maps a ship id to its ShipPlacementInfo.
BoardSetup_new(dim) == [grid |-> Grid_new(dim), ships |-> <<>>]

placed(b, id) == b.ships[id].placement # None

\* get_placements of ship id from coord.
get_placements(b, id, coord) == project(b.ships[id].shape, b.grid.dim, coord)

\* The occupancy loop of check_placement from entry k on.
RECURSIVE CheckScan(_, _, _)
CheckScan(grid, placement, k) ==
    IF k > Len(placement) THEN "Ok"
    ELSE LET cell == Grid_get(grid, placement[k])
         IN  IF cell = None THEN "InvalidProjection"
             ELSE IF cell[1].ship # None THEN "AlreadyOccupied"
             ELSE CheckScan(grid, placement, k + 1)

check_placement(b, id, placement) ==
    IF placed(b, id) THEN "AlreadyPlaced"
    ELSE IF ~is_valid_placement(b.ships[id].shape, placement, b.grid.dim)
         THEN "InvalidProjection"
    ELSE CheckScan(b.grid, placement, 1)

\* The first loop of place from entry k on: the reason it returns, or "Ok".
RECURSIVE PlaceScan(_, _, _)
PlaceScan(grid, placement, k) ==
    IF k > Len(placement) THEN "Ok"
    ELSE LET cell == Grid_get(grid, placement[k])
         IN  IF cell = None THEN "InvalidProjection"
             ELSE IF cell[1].ship # None THEN "AlreadyOccupied"
             ELSE PlaceScan(grid, placement, k + 1)

\* The second loop of place from entry k on: grid[coord].ship = Some(id).
RECURSIVE PlaceWrite(_, _, _, _)
PlaceWrite(grid, id, placement, k) ==
    IF k > Len(placement) THEN grid
    ELSE PlaceWrite(Grid_set_ship(grid, placement[k], Some(id)), id, placement, k + 1)

\* place without its first test, that the ship is not placed yet.
place_ignores_placed(b, id, placement) ==
    IF ~is_valid_placement(b.ships[id].shape, placement, b.grid.dim)
         THEN [ret |-> "InvalidProjection", board |-> b]
    ELSE LET r == PlaceScan(b.grid, placement, 1)
         IN  IF r # "Ok" THEN [ret |-> r, board |-> b]
             ELSE [ret   |-> "Ok",
                   board |-> [grid  |-> PlaceWrite(b.grid, id, placement, 1),
                              ships |-> [b.ships EXCEPT ![id].placement = Some(placement)]]]

\* ShipEntryMut::place: the reason ("Ok" on success) and the board afterwards.
place(b, id, placement) ==
    IF placed(b, id) THEN [ret |-> "AlreadyPlaced", board |-> b]
    ELSE IF ~is_valid_placement(b.ships[id].shape, placement, b.grid.dim)
         THEN [ret |-> "InvalidProjection", board |-> b]
    ELSE LET r == PlaceScan(b.grid, placement, 1)
         IN  IF r # "Ok" THEN [ret |-> r, board |-> b]
             ELSE [ret   |-> "Ok",
                   board |-> [grid  |-> PlaceWrite(b.grid, id, placement, 1),
                              ships |-> [b.ships EXCEPT ![id].placement = Some(placement)]]]

\* The loop of unplace from entry k on: grid[coord].ship = None.
RECURSIVE UnplaceClear(_, _, _)
UnplaceClear(grid, placement, k) ==
    IF k > Len(placement) THEN grid
    ELSE UnplaceClear(Grid_set_ship(grid, placement[k], None), placement, k + 1)

\* unplace that takes the placement and leaves the cells as they are.
unplace_keeps_cells(b, id) ==
    LET old == b.ships[id].placement
    IN  IF old = None THEN [ret |-> None, board |-> b]
        ELSE [ret   |-> old,
              board |-> [grid  |-> b.grid,
                         ships |-> [b.ships EXCEPT ![id].placement = None]]]

\* unplace that clears the cells and hands the placement back without taking it.
unplace_keeps_placement(b, id) ==
    LET old == b.ships[id].placement
    IN  IF old = None THEN [ret |-> None, board |-> b]
        ELSE [ret   |-> old,
              board |-> [grid  |-> UnplaceClear(b.grid, old[1], 1),
                         ships |-> b.ships]]

\* ShipEntryMut::unplace: the previous placement (an Option) and the board afterwards.
unplace(b, id) ==
    LET old == b.ships[id].placement
    IN  IF old = None THEN [ret |-> None, board |-> b]
        ELSE [ret   |-> old,
              board |-> [grid  |-> UnplaceClear(b.grid, old[1], 1),
                         ships |-> [b.ships EXCEPT ![id].placement = None]]]

\* add_ship that inserts over an entry that is already there.
add_ship_overwrites(b, id, shape) ==
    [ret   |-> "Ok",
     board |-> [b EXCEPT !.ships = (id :> [shape |-> shape, placement |-> None]) @@ @]]

\* BoardSetup::add_ship.
add_ship(b, id, shape) ==
    IF id \in DOMAIN b.ships THEN [ret |-> "AlreadyExists", board |-> b]
    ELSE [ret   |-> "Ok",
          board |-> [b EXCEPT !.ships = (id :> [shape |-> shape, placement |-> None]) @@ @]]

\* ready that is content with a board that has no ship at all.
ready_allows_no_ships(b) ==
    \A id \in DOMAIN b.ships : b.ships[id].placement # None

ready(b) ==
    DOMAIN b.ships # {} /\ \A id \in DOMAIN b.ships : b.ships[id].placement # None

\* start that asks only for one placed ship and drops the ships not placed.
start_when_any_placed(b) ==
    IF \A id \in DOMAIN b.ships : b.ships[id].placement = None
    THEN [ok |-> FALSE, board |-> b]
    ELSE [ok    |-> TRUE,
          board |-> [grid  |-> b.grid,
                     ships |-> [id \in {i \in DOMAIN b.ships : b.ships[i].placement # None}
                                   |-> b.ships[id].placement[1]]]]

\* BoardSetup::start: Ok(Board) when ready, else Err(self).
start(b) ==
    IF ~ready(b) THEN [ok |-> FALSE, board |-> b]
    ELSE [ok    |-> TRUE,
          board |-> [grid  |-> b.grid,
                     ships |-> [id \in DOMAIN b.ships |-> b.ships[id].placement[1]]]]

(***************************************************************************)
(* Board (play): board.rs                                                  *)
(***************************************************************************)

\* sunk that is content with one hit cell.
sunk_any_hit(b, id) ==
    \E k \in 1..Len(b.ships[id]) :
        b.grid.cells[try_linearize(b.grid.dim, b.ships[id][k])[1]].hit

\* ShipRef::sunk for the ship with this id.
sunk(b, id) ==
    \A k \in 1..Len(b.ships[id]) :
        b.grid.cells[try_linearize(b.grid.dim, b.ships[id][k])[1]].hit

defeated(b) == \A id \in DOMAIN b.ships : sunk(b, id)

ShotErr(reason, b) == [ok |-> FALSE, ret |-> reason, ship |-> None, board |-> b]
ShotOk(outcome, ship, b) == [ok |-> TRUE, ret |-> outcome, ship |-> ship, board |-> b]

\* shoot that looks the cell up before it asks whether the board is defeated.
shoot_bounds_first(b, coord) ==
    LET cell == Grid_get(b.grid, coord)
    IN  IF cell = None THEN ShotErr("OutOfBounds", b)
        ELSE IF cell[1].hit THEN ShotErr("AlreadyShot", b)
        ELSE IF defeated(b) THEN ShotErr("AlreadyDefeated", b)
        ELSE LET b2 == [b EXCEPT !.grid = Grid_set_hit(b.grid, coord)]
                 hit_ship == cell[1].ship
             IN  IF hit_ship = None THEN ShotOk("Miss", None, b2)
                 ELSE IF defeated(b2) THEN ShotOk("Defeated", hit_ship, b2)
                 ELSE IF sunk(b2, hit_ship[1]) THEN ShotOk("Sunk", hit_ship, b2)
                 ELSE ShotOk("Hit", hit_ship, b2)

\* shoot that decides the outcome on the board as it was before the hit.
shoot_decides_before_hit(b, coord) ==
    IF defeated(b) THEN ShotErr("AlreadyDefeated", b)
    ELSE LET cell == Grid_get(b.grid, coord)
         IN  IF cell = None THEN ShotErr("OutOfBounds", b)
             ELSE IF cell[1].hit THEN ShotErr("AlreadyShot", b)
             ELSE LET b2 == [b EXCEPT !.grid = Grid_set_hit(b.grid, coord)]
                      hit_ship == cell[1].ship
                  IN  IF hit_ship = None THEN ShotOk("Miss", None, b2)
                      ELSE IF defeated(b) THEN ShotOk("Defeated", hit_ship, b2)
                      ELSE IF sunk(b, hit_ship[1]) THEN ShotOk("Sunk", hit_ship, b2)
                      ELSE ShotOk("Hit", hit_ship, b2)

\* shoot that records the hit flag only when a ship is in the cell.
shoot_miss_not_recorded(b, coord) ==
    IF defeated(b) THEN ShotErr("AlreadyDefeated", b)
    ELSE LET cell == Grid_get(b.grid, coord)
         IN  IF cell = None THEN ShotErr("OutOfBounds", b)
             ELSE IF cell[1].hit THEN ShotErr("AlreadyShot", b)
             ELSE LET b2 == [b EXCEPT !.grid = Grid_set_hit(b.grid, coord)]
                      hit_ship == cell[1].ship
                  IN  IF hit_ship = None THEN ShotOk("Miss", None, b)
                      ELSE IF defeated(b2) THEN ShotOk("Defeated", hit_ship, b2)
                      ELSE IF sunk(b2, hit_ship[1]) THEN ShotOk("Sunk", hit_ship, b2)
                      ELSE ShotOk("Hit", hit_ship, b2)

\* shoot that takes the ship out of the cell it hits.
shoot_clears_ship(b, coord) ==
    IF defeated(b) THEN ShotErr("AlreadyDefeated", b)
    ELSE LET cell == Grid_get(b.grid, coord)
         IN  IF cell = None THEN ShotErr("OutOfBounds", b)
             ELSE IF cell[1].hit THEN ShotErr("AlreadyShot", b)
             ELSE LET b2 == [b EXCEPT !.grid = Grid_set_hit(b.grid, coord)]
                      b3 == [b2 EXCEPT !.grid = Grid_set_ship(b2.grid, coord, None)]
                      hit_ship == cell[1].ship
                  IN  IF hit_ship = None THEN ShotOk("Miss", None, b2)
                      ELSE IF defeated(b2) THEN ShotOk("Defeated", hit_ship, b3)
                      ELSE IF sunk(b2, hit_ship[1]) THEN ShotOk("Sunk", hit_ship, b3)
                      ELSE ShotOk("Hit", hit_ship, b3)

\* shoot that marks the cell before it finds the board defeated.
shoot_marks_defeated_board(b, coord) ==
    LET cell == Grid_get(b.grid, coord)
    IN  IF cell = None
        THEN ShotErr(IF defeated(b) THEN "AlreadyDefeated" ELSE "OutOfBounds", b)
        ELSE IF cell[1].hit
        THEN ShotErr(IF defeated(b) THEN "AlreadyDefeated" ELSE "AlreadyShot", b)
        ELSE LET b2 == [b EXCEPT !.grid = Grid_set_hit(b.grid, coord)]
                 hit_ship == cell[1].ship
             IN  IF defeated(b) THEN ShotErr("AlreadyDefeated", b2)
                 ELSE IF hit_ship = None THEN ShotOk("Miss", None, b2)
                 ELSE IF defeated(b2) THEN ShotOk("Defeated", hit_ship, b2)
                 ELSE IF sunk(b2, hit_ship[1]) THEN ShotOk("Sunk", hit_ship, b2)
                 ELSE ShotOk("Hit", hit_ship, b2)

\* Board::shoot: the outcome or the error reason, and the board afterwards.
shoot(b, coord) ==
    IF defeated(b) THEN ShotErr("AlreadyDefeated", b)
    ELSE LET cell == Grid_get(b.grid, coord)
         IN  IF cell = None THEN ShotErr("OutOfBounds", b)
             ELSE IF cell[1].hit THEN ShotErr("AlreadyShot", b)
             ELSE LET b2 == [b EXCEPT !.grid = Grid_set_hit(b.grid, coord)]
                      hit_ship == cell[1].ship
                  IN  IF hit_ship = None THEN ShotOk("Miss", None, b2)
                      ELSE IF defeated(b2) THEN ShotOk("Defeated", hit_ship, b2)
                      ELSE IF sunk(b2, hit_ship[1]) THEN ShotOk("Sunk", hit_ship, b2)
                      ELSE ShotOk("Hit", hit_ship, b2)

(***************************************************************************)
(* GameSetup and Game: game/uniform.rs                                     *)
(***************************************************************************)

GameSetup_new == [boards |-> <<>>, turn_order |-> <<>>]

\* add_player that inserts over an existing entry and queues the id again.
add_player_overwrites(gs, pid, dim) ==
    [ret  |-> "Ok",
     game |-> [boards     |-> (pid :> BoardSetup_new(dim)) @@ gs.boards,
               turn_order |-> Append(gs.turn_order, pid)]]

\* GameSetup::add_player.
add_player(gs, pid, dim) ==
    IF pid \in DOMAIN gs.boards THEN [ret |-> "AlreadyExists", game |-> gs]
    ELSE [ret  |-> "Ok",
          game |-> [boards     |-> (pid :> BoardSetup_new(dim)) @@ gs.boards,
                    turn_order |-> Append(gs.turn_order, pid)]]

\* ready that is content with one player.
GameSetup_ready_one_player(gs) ==
    Cardinality(DOMAIN gs.boards) >= 1 /\ \A pid \in DOMAIN gs.boards : ready(gs.boards[pid])

\* GameSetup::ready.
GameSetup_ready(gs) ==
    Cardinality(DOMAIN gs.boards) >= 2 /\ \A pid \in DOMAIN gs.boards : ready(gs.boards[pid])

\* GameSetup::start: Ok(Game) when ready, else Err(self).
GameSetup_start(gs) ==
    IF ~GameSetup_ready(gs) THEN [ok |-> FALSE, game |-> gs]
    ELSE [ok   |-> TRUE,
          game |-> [boards     |-> [pid \in DOMAIN gs.boards |-> start(gs.boards[pid]).board],
                    turn_order |-> gs.turn_order,
                    current    |-> 0]]

\* Game::current: turn_order[self.current], a 0-based index into the Vec.
Game_current(g) == g.turn_order[g.current + 1]

\* winner that answers as soon as any board is defeated.
Game_winner_any_defeated(g) ==
    LET remaining == Cardinality({pid \in DOMAIN g.boards : ~defeated(g.boards[pid])})
    IN  IF remaining < Cardinality(DOMAIN g.boards) THEN Some(Game_current(g)) ELSE None

\* winner that waits until no board at all is left undefeated.
Game_winner_none_left(g) ==
    LET remaining == Cardinality({pid \in DOMAIN g.boards : ~defeated(g.boards[pid])})
    IN  IF remaining = 0 THEN Some(Game_current(g)) ELSE None

\* Game::winner: an Option of a player id.
Game_winner(g) ==
    LET remaining == Cardinality({pid \in DOMAIN g.boards : ~defeated(g.boards[pid])})
    IN  IF remaining = 1 THEN Some(Game_current(g)) ELSE None

GameShotErr(reason, g) == [ok |-> FALSE, ret |-> reason, ship |-> None, game |-> g]

\* Game::shoot that tests target == current() before winner().
Game_shoot_self_first(g, target, coord) ==
    IF Game_current(g) = target THEN GameShotErr("SelfShot", g)
    ELSE IF Game_winner(g) # None THEN GameShotErr("AlreadyOver", g)
    ELSE IF target \in DOMAIN g.boards
         THEN LET r  == shoot(g.boards[target], coord)
                  g2 == [g EXCEPT !.boards[target] = r.board]
              IN  IF r.ok /\ r.ret = "Defeated" /\ Game_winner(g2) # None
                  THEN [ok |-> TRUE, ret |-> "Victory", ship |-> r.ship, game |-> g2]
                  ELSE [ok |-> r.ok, ret |-> r.ret, ship |-> r.ship, game |-> g2]
    ELSE GameShotErr("UnknownPlayer", g)

\* Game::shoot that lifts every board Defeated to Victory.
Game_shoot_always_victory(g, target, coord) ==
    IF Game_winner(g) # None THEN GameShotErr("AlreadyOver", g)
    ELSE IF Game_current(g) = target THEN GameShotErr("SelfShot", g)
    ELSE IF target \in DOMAIN g.boards
         THEN LET r  == shoot(g.boards[target], coord)
                  g2 == [g EXCEPT !.boards[target] = r.board]
              IN  IF r.ok /\ r.ret = "Defeated"
                  THEN [ok |-> TRUE, ret |-> "Victory", ship |-> r.ship, game |-> g2]
                  ELSE [ok |-> r.ok, ret |-> r.ret, ship |-> r.ship, game |-> g2]
    ELSE GameShotErr("UnknownPlayer", g)

\* Game::shoot without the winner() test.
Game_shoot_no_over_check(g, target, coord) ==
    IF Game_current(g) = target THEN GameShotErr("SelfShot", g)
    ELSE IF target \in DOMAIN g.boards
         THEN LET r  == shoot(g.boards[target], coord)
                  g2 == [g EXCEPT !.boards[target] = r.board]
              IN  IF r.ok /\ r.ret = "Defeated" /\ Game_winner(g2) # None
                  THEN [ok |-> TRUE, ret |-> "Victory", ship |-> r.ship, game |-> g2]
                  ELSE [ok |-> r.ok, ret |-> r.ret, ship |-> r.ship, game |-> g2]
    ELSE GameShotErr("UnknownPlayer", g)

\* Game::shoot that passes the turn on after a successful shot.
Game_shoot_advances_turn(g, target, coord) ==
    IF Game_winner(g) # None THEN GameShotErr("AlreadyOver", g)
    ELSE IF Game_current(g) = target THEN GameShotErr("SelfShot", g)
    ELSE IF target \in DOMAIN g.boards
         THEN LET r  == shoot(g.boards[target], coord)
                  g2 == [g EXCEPT !.boards[target] = r.board,
                                  !.current = IF r.ok THEN (@ + 1) % Len(g.turn_order) ELSE @]
              IN  IF r.ok /\ r.ret = "Defeated" /\ Game_winner(g2) # None
                  THEN [ok |-> TRUE, ret |-> "Victory", ship |-> r.ship, game |-> g2]
                  ELSE [ok |-> r.ok, ret |-> r.ret, ship |-> r.ship, game |-> g2]
    ELSE GameShotErr("UnknownPlayer", g)

\* Game::shoot that moves current on after a successful shot and never takes
\* it back to the start of turn_order.
Game_shoot_turn_runs_off(g, target, coord) ==
    IF Game_winner(g) # None THEN GameShotErr("AlreadyOver", g)
    ELSE IF Game_current(g) = target THEN GameShotErr("SelfShot", g)
    ELSE IF target \in DOMAIN g.boards
         THEN LET r  == shoot(g.boards[target], coord)
                  g2 == [g EXCEPT !.boards[target] = r.board]
                  g3 == [g2 EXCEPT !.current = IF r.ok THEN @ + 1 ELSE @]
              IN  IF r.ok /\ r.ret = "Defeated" /\ Game_winner(g2) # None
                  THEN [ok |-> TRUE, ret |-> "Victory", ship |-> r.ship, game |-> g3]
                  ELSE [ok |-> r.ok, ret |-> r.ret, ship |-> r.ship, game |-> g3]
    ELSE GameShotErr("UnknownPlayer", g)

\* Game::shoot that takes the game for over as soon as one board is defeated.
Game_shoot_over_after_defeat(g, target, coord) ==
    IF \E pid \in DOMAIN g.boards : defeated(g.boards[pid])
    THEN GameShotErr("AlreadyOver", g)
    ELSE IF Game_current(g) = target THEN GameShotErr("SelfShot", g)
    ELSE IF target \in DOMAIN g.boards
         THEN LET r  == shoot(g.boards[target], coord)
                  g2 == [g EXCEPT !.boards[target] = r.board]
              IN  IF r.ok /\ r.ret = "Defeated" /\ Game_winner(g2) # None
                  THEN [ok |-> TRUE, ret |-> "Victory", ship |-> r.ship, game |-> g2]
                  ELSE [ok |-> r.ok, ret |-> r.ret, ship |-> r.ship, game |-> g2]
    ELSE GameShotErr("UnknownPlayer", g)

\* Game::shoot without the test target == current().
Game_shoot_no_self_check(g, target, coord) ==
    IF Game_winner(g) # None THEN GameShotErr("AlreadyOver", g)
    ELSE IF target \in DOMAIN g.boards
         THEN LET r  == shoot(g.boards[target], coord)
                  g2 == [g EXCEPT !.boards[target] = r.board]
              IN  IF r.ok /\ r.ret = "Defeated" /\ Game_winner(g2) # None
                  THEN [ok |-> TRUE, ret |-> "Victory", ship |-> r.ship, game |-> g2]
                  ELSE [ok |-> r.ok, ret |-> r.ret, ship |-> r.ship, game |-> g2]
    ELSE GameShotErr("UnknownPlayer", g)

\* Game::shoot that also marks an accepted shot on the shooter's own board.
Game_shoot_records_on_shooter(g, target, coord) ==
    IF Game_winner(g) # None THEN GameShotErr("AlreadyOver", g)
    ELSE IF Game_current(g) = target THEN GameShotErr("SelfShot", g)
    ELSE IF target \in DOMAIN g.boards
         THEN LET r  == shoot(g.boards[target], coord)
                  g2 == [g EXCEPT !.boards[target] = r.board]
                  g3 == IF r.ok
                        THEN [g2 EXCEPT !.boards[Game_current(g)].grid = Grid_set_hit(@, coord)]
                        ELSE g2
              IN  IF r.ok /\ r.ret = "Defeated" /\ Game_winner(g2) # None
                  THEN [ok |-> TRUE, ret |-> "Victory", ship |-> r.ship, game |-> g3]
                  ELSE [ok |-> r.ok, ret |-> r.ret, ship |-> r.ship, game |-> g3]
    ELSE GameShotErr("UnknownPlayer", g)

\* Game::shoot that asks for the winner before the shot is on the board.
Game_shoot_winner_before_hit(g, target, coord) ==
    IF Game_winner(g) # None THEN GameShotErr("AlreadyOver", g)
    ELSE IF Game_current(g) = target THEN GameShotErr("SelfShot", g)
    ELSE IF target \in DOMAIN g.boards
         THEN LET r  == shoot(g.boards[target], coord)
                  g2 == [g EXCEPT !.boards[target] = r.board]
              IN  IF r.ok /\ r.ret = "Defeated" /\ Game_winner(g) # None
                  THEN [ok |-> TRUE, ret |-> "Victory", ship |-> r.ship, game |-> g2]
                  ELSE [ok |-> r.ok, ret |-> r.ret, ship |-> r.ship, game |-> g2]
    ELSE GameShotErr("UnknownPlayer", g)

\* Game::shoot: the outcome or the error reason, and the game afterwards.
Game_shoot(g, target, coord) ==
    IF Game_winner(g) # None THEN GameShotErr("AlreadyOver", g)
    ELSE IF Game_current(g) = target THEN GameShotErr("SelfShot", g)
    ELSE IF target \in DOMAIN g.boards
         THEN LET r  == shoot(g.boards[target], coord)
                  g2 == [g EXCEPT !.boards[target] = r.board]
              IN  IF r.ok /\ r.ret = "Defeated" /\ Game_winner(g2) # None
                  THEN [ok |-> TRUE, ret |-> "Victory", ship |-> r.ship, game |-> g2]
                  ELSE [ok |-> r.ok, ret |-> r.ret, ship |-> r.ship, game |-> g2]
    ELSE GameShotErr("UnknownPlayer", g)

(***************************************************************************)
(* The simple game: game/simple.rs.  Two players, five ships each, on      *)
(* 10x10 boards; a wrapper around the uniform GameSetup and Game.          *)
(***************************************************************************)

Player == {"P1", "P2"}

oponent(p) == IF p = "P1" THEN "P2" ELSE "P1"

\* The ship ids, in the order add_ships registers them.
Ship == <<"Carrier", "Battleship", "Cruiser", "Submarine", "Destroyer">>

Ship_len(ship) ==
    CASE ship = "Carrier"    -> 5
      [] ship = "Battleship" -> 4
      [] ship = "Cruiser"    -> 3
      [] ship = "Submarine"  -> 3
      [] ship = "Destroyer"  -> 2

Orientation == {"Up", "Down", "Left", "Right"}

\* usize::cmp.
cmp(a, b) == IF a < b THEN "Less" ELSE IF a = b THEN "Equal" ELSE "Greater"

\* Orientation::check_dir: compares proj[0] with proj[1] (1-based here).
check_dir(dir, proj) ==
    IF Len(proj) < 2 THEN TRUE
    ELSE LET dx == cmp(proj[1][1], proj[2][1])
             dy == cmp(proj[1][2], proj[2][2])
         IN  \/ dir = "Up"    /\ dx = "Equal"   /\ dy = "Less"
             \/ dir = "Down"  /\ dx = "Equal"   /\ dy = "Greater"
             \/ dir = "Left"  /\ dx = "Less"    /\ dy = "Equal"
             \/ dir = "Right" /\ dx = "Greater" /\ dy = "Equal"

\* GameSetup::add_ships from ship k on: add_ship(ship, ship.get_shape()).
RECURSIVE add_ships(_, _)
add_ships(b, k) ==
    IF k > Len(Ship) THEN b
    ELSE add_ships(add_ship(b, Ship[k], Ship_len(Ship[k])).board, k + 1)

\* simple::GameSetup::new.
simple_GameSetup_new ==
    LET dim == RectDimensions(10, 10, FALSE, FALSE)
        s1  == add_player(GameSetup_new, "P1", dim).game
        s2  == [s1 EXCEPT !.boards["P1"] = add_ships(@, 1)]
        s3  == add_player(s2, "P2", dim).game
    IN  [s3 EXCEPT !.boards["P2"] = add_ships(@, 1)]

\* Iterator::find(|proj| dir.check_dir(proj)) from entry k on: an Option.
RECURSIVE find_dir(_, _, _)
find_dir(dir, projs, k) ==
    IF k > Len(projs) THEN None
    ELSE IF check_dir(dir, projs[k]) THEN Some(projs[k])
    ELSE find_dir(dir, projs, k + 1)

\* The map_err of place_ship and check_placement; the InvalidProjection arm
\* is unreachable!(), a panic.
map_place_err(reason) ==
    IF reason = "InvalidProjection" THEN "unreachable" ELSE reason

\* check_placement that checks the first projection, whatever its direction.
simple_check_placement_first_proj(gs, player, ship, coord, dir) ==
    LET b     == gs.boards[player]
        projs == get_placements(b, ship, coord)
    IN  IF projs = <<>> THEN "InsufficientSpace"
        ELSE map_place_err(check_placement(b, ship, projs[1]))

\* simple::GameSetup::check_placement.
simple_check_placement(gs, player, ship, coord, dir) ==
    LET b    == gs.boards[player]
        proj == find_dir(dir, get_placements(b, ship, coord), 1)
    IN  IF proj = None THEN "InsufficientSpace"
        ELSE map_place_err(check_placement(b, ship, proj[1]))

\* simple::GameSetup::place_ship: the reason ("Ok" on success) and the setup
\* afterwards.
place_ship(gs, player, ship, coord, dir) ==
    LET b    == gs.boards[player]
        proj == find_dir(dir, get_placements(b, ship, coord), 1)
    IN  IF proj = None THEN [ret |-> "InsufficientSpace", game |-> gs]
        ELSE LET r == place(b, ship, proj[1])
             IN  [ret  |-> map_place_err(r.ret),
                  game |-> [gs EXCEPT !.boards[player] = r.board]]

\* simple::GameSetup::unplace_ship: whether the ship was placed, and the setup
\* afterwards.
unplace_ship(gs, player, ship) ==
    LET r == unplace(gs.boards[player], ship)
    IN  [ret |-> r.ret # None, game |-> [gs EXCEPT !.boards[player] = r.board]]

\* simple::Game::shoot: the uniform outcome or reason mapped to the simple
\* one; the arms for Defeated, UnknownPlayer and AlreadyDefeated are
\* unreachable!(), a panic.
simple_shoot(g, target, coord) ==
    LET r == Game_shoot(g, target, coord)
    IN  [r EXCEPT !.ret = CASE @ = "SelfShot" -> "OutOfTurn"
                            [] @ \in {"Defeated", "UnknownPlayer", "AlreadyDefeated"}
                                 -> "unreachable"
                            [] OTHER -> @]

(***************************************************************************)
(* Inputs                                                                  *)
(***************************************************************************)

ShipIds == {"S1", "S2"}

\* Dimensions a standalone board is constructed with.
BoardDims == {RectDimensions(2, 2, FALSE, FALSE)}

InCoords(dim) == {<<x, y>> : x \in 0..(dim.width - 1), y \in 0..(dim.height - 1)}

\* Coordinates a caller passes: every cell, and one cell past the right edge.
InputCoords(dim) == InCoords(dim) \cup {<<dim.width, 0>>}

\* Projections a caller passes to place and check_placement.
ProjectionsUpTo(dim, maxlen) == UNION {[1..n -> InputCoords(dim)] : n \in 0..maxlen}

Projections(dim) == ProjectionsUpTo(dim, MaxLen)

Players == {"P1", "P2", "P3"}

\* Dimensions a player's board is constructed with in a game.
GameDims == {RectDimensions(2, 1, FALSE, FALSE)}

\* Line lengths offered to add_ship in a game.
GameShapes == {1, 2}

\* Most ships registered over all the boards of one game.
MaxGameShips == 3

Result(op, ret, val) == [op |-> op, ret |-> ret, val |-> val]

\* The command line game is not running.
NoCli == [player |-> "none", last |-> "none"]

(***************************************************************************)
(* A standalone BoardSetup that becomes a Board                            *)
(***************************************************************************)

BoardInit ==
    /\ \E dim \in BoardDims : board = BoardSetup_new(dim)
    /\ bphase = "setup"
    /\ game = GameSetup_new
    /\ gphase = "setup"
    /\ result = Result("new", "Ok", None)
    /\ cli = NoCli

BAddShip ==
    /\ bphase = "setup"
    /\ \E id \in ShipIds, len \in 1..MaxLen :
          LET r == add_ship(board, id, len)
          IN  /\ board' = r.board
              /\ result' = Result("add_ship", r.ret, None)
    /\ UNCHANGED <<cli, bphase, game, gphase>>

BCheckPlacement ==
    /\ bphase = "setup"
    /\ \E id \in DOMAIN board.ships, p \in Projections(board.grid.dim) :
          result' = Result("check_placement", check_placement(board, id, p), None)
    /\ UNCHANGED <<cli, board, bphase, game, gphase>>

BPlace ==
    /\ bphase = "setup"
    /\ \E id \in DOMAIN board.ships, p \in Projections(board.grid.dim) :
          LET r == place(board, id, p)
          IN  /\ board' = r.board
              /\ result' = Result("place", r.ret, None)
    /\ UNCHANGED <<cli, bphase, game, gphase>>

BUnplace ==
    /\ bphase = "setup"
    /\ \E id \in DOMAIN board.ships :
          LET r == unplace(board, id)
          IN  /\ board' = r.board
              /\ result' = Result("unplace", IF r.ret = None THEN "None" ELSE "Some", r.ret)
    /\ UNCHANGED <<cli, bphase, game, gphase>>

BStart ==
    /\ bphase = "setup"
    /\ LET r == start(board)
       IN  /\ board' = r.board
           /\ bphase' = IF r.ok THEN "play" ELSE "setup"
           /\ result' = Result("start", IF r.ok THEN "Ok" ELSE "Err", None)
    /\ UNCHANGED <<cli, game, gphase>>

BShoot ==
    /\ bphase = "play"
    /\ \E c \in InputCoords(board.grid.dim) :
          LET r == shoot(board, c)
          IN  /\ board' = r.board
              /\ result' = Result("shoot", r.ret, r.ship)
    /\ UNCHANGED <<cli, bphase, game, gphase>>

BoardNext == BAddShip \/ BCheckPlacement \/ BPlace \/ BUnplace \/ BStart \/ BShoot

BoardSpec == BoardInit /\ [][BoardNext]_vars

(***************************************************************************)
(* A GameSetup that becomes a Game.  result records what the game-level     *)
(* calls return; a call on a board reached through get_board_mut records   *)
(* only that the board was handed out.                                     *)
(***************************************************************************)

RECURSIVE SumOver(_, _)
SumOver(f, S) ==
    IF S = {} THEN 0
    ELSE LET x == CHOOSE y \in S : TRUE IN f[x] + SumOver(f, S \ {x})

\* Ships registered over all boards of the game being set up.
GameShips ==
    SumOver([pid \in DOMAIN game.boards |-> Cardinality(DOMAIN game.boards[pid].ships)],
            DOMAIN game.boards)

Init ==
    /\ \E dim \in BoardDims : board = BoardSetup_new(dim)
    /\ bphase = "setup"
    /\ game = GameSetup_new
    /\ gphase = "setup"
    /\ result = Result("new", "Ok", None)
    /\ cli = NoCli

AddPlayer ==
    /\ gphase = "setup"
    /\ \E pid \in Players, dim \in GameDims :
          LET r == add_player(game, pid, dim)
          IN  /\ game' = r.game
              /\ result' = Result("add_player", r.ret, None)
    /\ UNCHANGED <<cli, board, bphase, gphase>>

\* Ship ids a caller registers on a board of a game: one already there (a
\* duplicate), or the first unused one.  Boards differing only by a renaming of
\* their ships behave alike, so the ids are drawn in order.
GameShipIds(b) ==
    DOMAIN b.ships \cup {IF "S1" \in DOMAIN b.ships THEN "S2" ELSE "S1"}

\* get_board_mut(pid) then add_ship on that board.
GAddShip ==
    /\ gphase = "setup"
    /\ GameShips < MaxGameShips
    /\ \E pid \in DOMAIN game.boards :
          \E id \in GameShipIds(game.boards[pid]), len \in GameShapes :
                LET r == add_ship(game.boards[pid], id, len)
                IN  /\ game' = [game EXCEPT !.boards[pid] = r.board]
                    /\ result' = Result("get_board_mut", "Some", None)
    /\ UNCHANGED <<cli, board, bphase, gphase>>

\* get_board_mut(pid), get_ship_mut(id), then place.
GPlace ==
    /\ gphase = "setup"
    /\ \E pid \in DOMAIN game.boards :
          \E id \in DOMAIN game.boards[pid].ships,
             p \in ProjectionsUpTo(game.boards[pid].grid.dim, 2) :
                LET r == place(game.boards[pid], id, p)
                IN  /\ game' = [game EXCEPT !.boards[pid] = r.board]
                    /\ result' = Result("get_board_mut", "Some", None)
    /\ UNCHANGED <<cli, board, bphase, gphase>>

\* get_board_mut(pid), get_ship_mut(id), then unplace.
GUnplace ==
    /\ gphase = "setup"
    /\ \E pid \in DOMAIN game.boards :
          \E id \in DOMAIN game.boards[pid].ships :
                LET r == unplace(game.boards[pid], id)
                IN  /\ game' = [game EXCEPT !.boards[pid] = r.board]
                    /\ result' = Result("get_board_mut", "Some", None)
    /\ UNCHANGED <<cli, board, bphase, gphase>>

GameStart ==
    /\ gphase = "setup"
    /\ LET r == GameSetup_start(game)
       IN  /\ game' = r.game
           /\ gphase' = IF r.ok THEN "play" ELSE "setup"
           /\ result' = Result("start", IF r.ok THEN "Ok" ELSE "Err", None)
    /\ UNCHANGED <<cli, board, bphase>>

GameShoot ==
    /\ gphase = "play"
    /\ \E target \in Players, c \in UNION {InputCoords(d) : d \in GameDims} :
          LET r == Game_shoot(game, target, c)
          IN  /\ game' = r.game
              /\ result' = Result("shoot", r.ret, r.ship)
    /\ UNCHANGED <<cli, board, bphase, gphase>>

\* The caller constructs a shape with Line::new before it registers a ship; a
\* length of 0 aborts the program, and nothing runs after that.
NewLine ==
    /\ gphase = "setup"
    /\ \E len \in GameShapes \cup {0} :
          LET shape == Line_new(len)
          IN  /\ result' = Result("Line::new", IF shape.panic THEN "panic" ELSE "Ok", None)
              /\ gphase' = IF shape.panic THEN "aborted" ELSE gphase
    /\ UNCHANGED <<cli, board, bphase, game>>

Next ==
    AddPlayer \/ NewLine \/ GAddShip \/ GPlace \/ GUnplace \/ GameStart \/ GameShoot

Spec == Init /\ [][Next]_vars

(***************************************************************************)
(* The simple game, from GameSetup::new() on.  The calls a caller makes    *)
(* are drawn from SimpleMoves and SimpleShots.                             *)
(***************************************************************************)

\* The row a ship is put in by its home move: ship k of Ship in row 2(k-1).
HomeRow(ship) == 2 * ((CHOOSE k \in 1..Len(Ship) : Ship[k] = ship) - 1)

\* The setup the calls start from: GameSetup::new(), and then P2's ships other
\* than the Destroyer placed from the left edge of their home rows.
RECURSIVE place_home(_, _, _, _)
place_home(gs, p, k, last) ==
    IF k > last THEN gs
    ELSE place_home(place_ship(gs, p, Ship[k], <<0, HomeRow(Ship[k])>>, "Left").game,
                    p, k + 1, last)

\* The ships the caller places and unplaces: all of P1's, and P2's Destroyer.
SimpleShips == {<<"P1", Ship[k]>> : k \in 1..Len(Ship)} \cup {<<"P2", "Destroyer">>}

\* place_ship and check_placement calls <<player, ship, start, dir>>: for
\* each of these ships one call from the left edge of its home row; for P1's
\* Carrier every orientation from two cells of row 0 and from a coordinate
\* past the right edge; for P1's Battleship every orientation from a cell of
\* row 0; for P2's Destroyer every orientation from a cell of the Submarine's
\* row.
SimpleMoves ==
    {<<ps[1], ps[2], <<0, HomeRow(ps[2])>>, "Left">> : ps \in SimpleShips}
        \cup {<<"P1", "Carrier", c, d>> :
                 c \in {<<0, 0>>, <<7, 0>>, <<10, 0>>}, d \in Orientation}
        \cup {<<"P1", "Battleship", <<2, 0>>, d>> : d \in Orientation}
        \cup {<<"P2", "Destroyer", <<1, 6>>, d>> : d \in Orientation}

\* Coordinates shot at: a ship cell, a water cell, a coordinate out of bounds.
SimpleShots == {<<0, 0>>, <<5, 5>>, <<10, 0>>}

\* The shot of a caller who sweeps a board row by row: the first cell of b, in
\* the order of iter_coordinates, that is not shot yet.
NextUnshot(b) ==
    LET unshot == {i \in DOMAIN b.grid.cells : ~b.grid.cells[i].hit}
    IN  IF unshot = {} THEN {}
        ELSE {un_linearize(b.grid.dim, CHOOSE i \in unshot : \A j \in unshot : i <= j)}

SimpleInit ==
    /\ \E dim \in BoardDims : board = BoardSetup_new(dim)
    /\ bphase = "setup"
    /\ game = place_home(simple_GameSetup_new, "P2", 1, 4)
    /\ gphase = "setup"
    /\ result = Result("new", "Ok", None)
    /\ cli = NoCli

SCheckPlacement ==
    /\ gphase = "setup"
    /\ \E m \in SimpleMoves :
          result' = Result("check_placement",
                           simple_check_placement(game, m[1], m[2], m[3], m[4]), None)
    /\ UNCHANGED <<cli, board, bphase, game, gphase>>

SPlaceShip ==
    /\ gphase = "setup"
    /\ \E m \in SimpleMoves :
          LET r == place_ship(game, m[1], m[2], m[3], m[4])
          IN  /\ game' = r.game
              /\ result' = Result("place_ship", r.ret, None)
    /\ UNCHANGED <<cli, board, bphase, gphase>>

SUnplaceShip ==
    /\ gphase = "setup"
    /\ \E ps \in SimpleShips :
          LET r == unplace_ship(game, ps[1], ps[2])
          IN  /\ game' = r.game
              /\ result' = Result("unplace_ship", r.ret, None)
    /\ UNCHANGED <<cli, board, bphase, gphase>>

\* simple::GameSetup::start wraps what the uniform start returns.
SStart ==
    /\ gphase = "setup"
    /\ LET r == GameSetup_start(game)
       IN  /\ game' = r.game
           /\ gphase' = IF r.ok THEN "play" ELSE "setup"
           /\ result' = Result("start", IF r.ok THEN "Ok" ELSE "Err", None)
    /\ UNCHANGED <<cli, board, bphase>>

SShoot ==
    /\ gphase = "play"
    /\ \E target \in Player :
       \E c \in SimpleShots \cup NextUnshot(game.boards[target]) :
          LET r == simple_shoot(game, target, c)
          IN  /\ game' = r.game
              /\ result' = Result("shoot", r.ret, r.ship)
    /\ UNCHANGED <<cli, board, bphase, gphase>>

SimpleNext == SCheckPlacement \/ SPlaceShip \/ SUnplaceShip \/ SStart \/ SShoot

SimpleSpec == SimpleInit /\ [][SimpleNext]_vars

(***************************************************************************)
(* A uniform game of two players whose only ship is a Destroyer, a Line of *)
(* length 2, on 10x10 boards.                                              *)
(***************************************************************************)

DuelDim == RectDimensions(10, 10, FALSE, FALSE)

\* Projections a caller passes to place for the Destroyer.
DuelProjections == {<< <<0, 0>>, <<1, 0>> >>, << <<0, 0>>, <<0, 1>> >>}

\* Coordinates shot at: the cells of the first projection and a water cell.
DuelShots == {<<5, 5>>, <<0, 0>>, <<1, 0>>}

DuelInit ==
    /\ \E dim \in BoardDims : board = BoardSetup_new(dim)
    /\ bphase = "setup"
    /\ game = GameSetup_new
    /\ gphase = "setup"
    /\ result = Result("new", "Ok", None)
    /\ cli = NoCli

DuelAddPlayer ==
    /\ gphase = "setup"
    /\ \E pid \in Player :
          LET r == add_player(game, pid, DuelDim)
          IN  /\ game' = r.game
              /\ result' = Result("add_player", r.ret, None)
    /\ UNCHANGED <<cli, board, bphase, gphase>>

\* get_board_mut(pid) then add_ship(Destroyer, Line::new(2)).
DuelAddShip ==
    /\ gphase = "setup"
    /\ \E pid \in DOMAIN game.boards :
          LET r == add_ship(game.boards[pid], "Destroyer", Ship_len("Destroyer"))
          IN  /\ game' = [game EXCEPT !.boards[pid] = r.board]
              /\ result' = Result("add_ship", r.ret, None)
    /\ UNCHANGED <<cli, board, bphase, gphase>>

\* get_board_mut(pid), get_ship_mut(Destroyer), then place.
DuelPlace ==
    /\ gphase = "setup"
    /\ \E pid \in DOMAIN game.boards, p \in DuelProjections :
          /\ "Destroyer" \in DOMAIN game.boards[pid].ships
          /\ LET r == place(game.boards[pid], "Destroyer", p)
             IN  /\ game' = [game EXCEPT !.boards[pid] = r.board]
                 /\ result' = Result("place", r.ret, None)
    /\ UNCHANGED <<cli, board, bphase, gphase>>

\* get_board_mut(pid), get_ship_mut(Destroyer), then unplace.
DuelUnplace ==
    /\ gphase = "setup"
    /\ \E pid \in DOMAIN game.boards :
          /\ "Destroyer" \in DOMAIN game.boards[pid].ships
          /\ LET r == unplace(game.boards[pid], "Destroyer")
             IN  /\ game' = [game EXCEPT !.boards[pid] = r.board]
                 /\ result' = Result("unplace", IF r.ret = None THEN "None" ELSE "Some", None)
    /\ UNCHANGED <<cli, board, bphase, gphase>>

DuelStart ==
    /\ gphase = "setup"
    /\ LET r == GameSetup_start(game)
       IN  /\ game' = r.game
           /\ gphase' = IF r.ok THEN "play" ELSE "setup"
           /\ result' = Result("start", IF r.ok THEN "Ok" ELSE "Err", None)
    /\ UNCHANGED <<cli, board, bphase>>

DuelShoot ==
    /\ gphase = "play"
    /\ \E target \in Player, c \in DuelShots :
          LET r == Game_shoot(game, target, c)
          IN  /\ game' = r.game
              /\ result' = Result("shoot", r.ret, r.ship)
    /\ UNCHANGED <<cli, board, bphase, gphase>>

\* The shot of a caller who keeps the game going: shoot at a cell not shot
\* yet, one of DuelShots or the next of a row by row sweep, of an opponent
\* whose board is not defeated.
DuelShootUnshot ==
    /\ gphase = "play"
    /\ \E target \in DOMAIN game.boards \ {Game_current(game)} :
       \E c \in DuelShots \cup NextUnshot(game.boards[target]) :
          /\ ~defeated(game.boards[target])
          /\ Grid_get(game.boards[target].grid, c) # None
          /\ ~Grid_get(game.boards[target].grid, c)[1].hit
          /\ LET r == Game_shoot(game, target, c)
             IN  /\ game' = r.game
                 /\ result' = Result("shoot", r.ret, r.ship)
    /\ UNCHANGED <<cli, board, bphase, gphase>>

DuelNext ==
    DuelAddPlayer \/ DuelAddShip \/ DuelPlace \/ DuelUnplace \/ DuelStart \/ DuelShoot
        \/ DuelShootUnshot

DuelSpec == DuelInit /\ [][DuelNext]_vars

\* The duel with a caller who, whatever else is called, goes on to shoot at
\* unshot cells of the undefeated opponent while there are any.
FairDuelSpec == DuelSpec /\ WF_vars(DuelShootUnshot)

(***************************************************************************)
(* The command line game: battleship/src/main.rs.  The state is taken up    *)
(* where main enters its loop: the human's player is chosen, both fleets    *)
(* are placed (here in their home rows) and the setup is started.           *)
(***************************************************************************)

\* Coordinates a turn tries: the next cell of a row by row sweep and two fixed
\* cells; both the human's input (read_coord) and the bot's sample
\* (COORD_RANGE) are in 0..9.
CliShots(b) == NextUnshot(b) \cup {<<5, 5>>, <<9, 9>>}

CliInit ==
    /\ \E dim \in BoardDims : board = BoardSetup_new(dim)
    /\ bphase = "setup"
    /\ game = GameSetup_start(place_home(place_home(simple_GameSetup_new, "P1", 1, 5),
                                         "P2", 1, 5)).game
    /\ gphase = "play"
    /\ result = Result("start", "Ok", None)
    /\ \E p \in Player : cli = [player |-> p, last |-> "none"]

\* The loop of player_turn and of bot_turn: shoot at target until a shot is
\* accepted.  AlreadyShot asks or samples again; the other errors are
\* unreachable!() arms.
CliTurn(side, target) ==
    \E c \in CliShots(game.boards[target]) :
        LET r == simple_shoot(game, target, c)
        IN  /\ r.ok \/ r.ret # "AlreadyShot"
            /\ game' = r.game
            /\ result' = Result(side, IF r.ok THEN r.ret ELSE "panic", r.ship)
            /\ cli' = [cli EXCEPT !.last = side]

\* main's loop body when game.current() == player.
CliPlayerTurn ==
    /\ Game_winner(game) = None
    /\ Game_current(game) = cli.player
    /\ CliTurn("player_turn", oponent(cli.player))
    /\ UNCHANGED <<board, bphase, gphase>>

\* main's loop body otherwise: the bot shoots at its opponent.
CliBotTurn ==
    /\ Game_winner(game) = None
    /\ Game_current(game) # cli.player
    /\ CliTurn("bot_turn", oponent(oponent(cli.player)))
    /\ UNCHANGED <<board, bphase, gphase>>

CliNext == CliPlayerTurn \/ CliBotTurn

CliSpec == CliInit /\ [][CliNext]_vars

(***************************************************************************)
(* Geometry and the Line shape on their own: a board of any small          *)
(* rectangular dimensions, with or without wrapping, and one Line ship.    *)
(***************************************************************************)

\* Largest width and height of the dimensions tried.
MaxSide == 3

\* Longest Line tried on them.
MaxLineLen == 4

GeometryDims ==
    {RectDimensions(w, h, wx, wy) : w \in 1..MaxSide, h \in 1..MaxSide,
                                    wx \in BOOLEAN, wy \in BOOLEAN}

\* Anchors and coordinates a caller passes: every cell, one coordinate past
\* the right edge and one past the bottom edge.
AnchorCoords(dim) == InCoords(dim) \cup {<<dim.width, 0>>, <<0, dim.height>>}

GeometryInit ==
    /\ \E dim \in GeometryDims : board = BoardSetup_new(dim)
    /\ bphase = "setup"
    /\ game = GameSetup_new
    /\ gphase = "setup"
    /\ result = Result("new", "Ok", None)
    /\ cli = NoCli

GeoAddShip ==
    /\ bphase = "setup"
    /\ \E len \in 1..MaxLineLen :
          LET r == add_ship(board, "S1", len)
          IN  /\ board' = r.board
              /\ result' = Result("add_ship", r.ret, None)
    /\ UNCHANGED <<cli, bphase, game, gphase>>

\* get_placements(anchor), collected.
GeoGetPlacements ==
    /\ bphase = "setup"
    /\ \E id \in DOMAIN board.ships, a \in AnchorCoords(board.grid.dim) :
          result' = Result("get_placements", a, get_placements(board, id, a))
    /\ UNCHANGED <<cli, board, bphase, game, gphase>>

GeoTryLinearize ==
    /\ \E c \in AnchorCoords(board.grid.dim) :
          LET i == try_linearize(board.grid.dim, c)
          IN  result' = Result("try_linearize", IF i = None THEN "None" ELSE "Some", i)
    /\ UNCHANGED <<cli, board, bphase, game, gphase>>

GeoUnLinearize ==
    /\ \E i \in 0..(total_size(board.grid.dim) - 1) :
          result' = Result("un_linearize", "Ok", un_linearize(board.grid.dim, i))
    /\ UNCHANGED <<cli, board, bphase, game, gphase>>

\* neighbors(c), collected.
GeoNeighbors ==
    /\ \E c \in AnchorCoords(board.grid.dim) :
          result' = Result("neighbors", c, neighbors(board.grid.dim, c))
    /\ UNCHANGED <<cli, board, bphase, game, gphase>>

GeometryNext ==
    GeoAddShip \/ GeoGetPlacements \/ GeoTryLinearize \/ GeoUnLinearize \/ GeoNeighbors

GeometrySpec == GeometryInit /\ [][GeometryNext]_vars

(***************************************************************************)
(* Properties.  The helpers below read the state directly (cells, flags,   *)
(* placements) and do not go through the operators that model the code.    *)
(***************************************************************************)

\* The coordinates of a projection, as a set.
CoordSet(proj) == {proj[k] : k \in 1..Len(proj)}

\* The cells of board b whose ship field is Some(id), as coordinates.
CellsNaming(b, id) ==
    {c \in InCoords(b.grid.dim) :
        b.grid.cells[c[2] * b.grid.dim.width + c[1]].ship = <<id>>}

\* The coordinates ship id is recorded at on a BoardSetup: none when unplaced.
RecordedCoords(b, id) ==
    IF b.ships[id].placement = <<>> THEN {} ELSE CoordSet(b.ships[id].placement[1])

InBounds(dim, c) == c[1] >= 0 /\ c[1] < dim.width /\ c[2] >= 0 /\ c[2] < dim.height

HitAt(b, c) == b.grid.cells[c[2] * b.grid.dim.width + c[1]].hit

ShipAt(b, c) == b.grid.cells[c[2] * b.grid.dim.width + c[1]].ship

\* Every cell of ship id's projection on a play Board is hit.
AllHit(b, id) == \A c \in CoordSet(b.ships[id]) : HitAt(b, c)

AllShipsHit(b) == \A id \in DOMAIN b.ships : AllHit(b, id)

\* C1: on a BoardSetup, after any add_ship, place and unplace calls, the cells
\* whose ship field is s are exactly the coordinates of s's recorded placement
\* (none when s is unplaced), and no cell names a ship that is not registered.
OccupancyMatchesPlacements ==
    bphase = "setup" =>
        /\ \A id \in DOMAIN board.ships : CellsNaming(board, id) = RecordedCoords(board, id)
        /\ \A c \in InCoords(board.grid.dim) :
              ShipAt(board, c) # <<>> => ShipAt(board, c)[1] \in DOMAIN board.ships

\* C1 witness: an unplace has just returned a placement while another ship is
\* still placed.
UnplacedOneOfTwo ==
    /\ bphase = "setup"
    /\ result.op = "unplace" /\ result.ret = "Some"
    /\ \E id \in DOMAIN board.ships : board.ships[id].placement # <<>>

\* C2: in every BoardSetup state, for every registered ship and every
\* projection, place returns the reason check_placement returns ("Ok" for
\* success), and a failing place leaves grid and placements as they were.
PlaceAgreesWithCheck ==
    bphase = "setup" =>
        \A id \in DOMAIN board.ships, p \in Projections(board.grid.dim) :
            LET r == place(board, id, p)
            IN  /\ r.ret = check_placement(board, id, p)
                /\ r.ret # "Ok" => r.board = board

\* C2 witness: a place has just failed on an occupied cell.
PlaceFailedOccupied ==
    bphase = "setup" /\ result.op = "place" /\ result.ret = "AlreadyOccupied"

\* C3: every recorded placement, of a BoardSetup or a Board, has pairwise
\* distinct coordinates that are all in bounds.
PlacementsDistinctInBounds ==
    \A id \in DOMAIN board.ships :
        LET proj == IF bphase = "play" THEN board.ships[id]
                    ELSE IF board.ships[id].placement = <<>> THEN <<>>
                    ELSE board.ships[id].placement[1]
        IN  /\ \A k \in 1..Len(proj) : InBounds(board.grid.dim, proj[k])
            /\ \A j, k \in 1..Len(proj) : j # k => proj[j] # proj[k]

\* C4: Board.shoot answers AlreadyDefeated on a defeated board whatever the
\* coordinate, else OutOfBounds for a coordinate outside the grid, else
\* AlreadyShot for a hit cell, and in each of these cases changes no cell;
\* in every other case the shot succeeds.
ShootErrorOrder ==
    bphase = "play" =>
        \A c \in InputCoords(board.grid.dim) :
            LET r == shoot(board, c)
            IN  IF AllShipsHit(board)
                    THEN ~r.ok /\ r.ret = "AlreadyDefeated" /\ r.board = board
                ELSE IF ~InBounds(board.grid.dim, c)
                    THEN ~r.ok /\ r.ret = "OutOfBounds" /\ r.board = board
                ELSE IF HitAt(board, c)
                    THEN ~r.ok /\ r.ret = "AlreadyShot" /\ r.board = board
                ELSE r.ok

\* C4 witness: a shot at a defeated board has just been refused.
ShotRefusedDefeated ==
    bphase = "play" /\ result.op = "shoot" /\ result.ret = "AlreadyDefeated"

\* C5: a successful Board.shoot(c) sets the hit flag of c and nothing else; it
\* returns Miss when the cell holds no ship, and otherwise, for the ship id in
\* the cell, Defeated(id) when every ship is sunk after the hit, else Sunk(id)
\* when ship id is sunk after the hit, else Hit(id).
ShootOutcome ==
    bphase = "play" =>
        \A c \in InputCoords(board.grid.dim) :
            LET r == shoot(board, c)
            IN  r.ok =>
                  /\ HitAt(r.board, c) /\ ~HitAt(board, c)
                  /\ \A d \in InCoords(board.grid.dim) \ {c} :
                        HitAt(r.board, d) = HitAt(board, d)
                  /\ \A d \in InCoords(board.grid.dim) : ShipAt(r.board, d) = ShipAt(board, d)
                  /\ r.board.ships = board.ships
                  /\ r.ship = ShipAt(board, c)
                  /\ r.ret = IF ShipAt(board, c) = <<>> THEN "Miss"
                             ELSE IF AllShipsHit(r.board) THEN "Defeated"
                             ELSE IF AllHit(r.board, ShipAt(board, c)[1]) THEN "Sunk"
                             ELSE "Hit"

\* C5 witness: a shot has just sunk one ship while another is afloat.
ShotSunk ==
    bphase = "play" /\ result.op = "shoot" /\ result.ret = "Sunk" /\ result.val # <<>>


\* Coordinates a caller passes to Game.shoot.
GameCoords == UNION {InputCoords(d) : d \in GameDims}

\* The players of game g whose board still has an unhit ship cell.
Undefeated(g) == {pid \in DOMAIN g.boards : ~AllShipsHit(g.boards[pid])}

\* C6: Game.shoot answers AlreadyOver when winner() is some, else SelfShot when
\* target is current() whatever the coordinate, else UnknownPlayer when target
\* is no player of the game; only then is the target's board shot, and a board
\* error comes back with the same reason.
GameShootErrorOrder ==
    gphase = "play" =>
        \A target \in Players, c \in GameCoords :
            LET r == Game_shoot(game, target, c)
            IN  IF Game_winner(game) # <<>>
                    THEN ~r.ok /\ r.ret = "AlreadyOver"
                ELSE IF target = game.turn_order[game.current + 1]
                    THEN ~r.ok /\ r.ret = "SelfShot"
                ELSE IF target \notin DOMAIN game.boards
                    THEN ~r.ok /\ r.ret = "UnknownPlayer"
                ELSE LET br == shoot(game.boards[target], c)
                     IN  /\ r.ok = br.ok
                         /\ ~br.ok => r.ret = br.ret
                                      /\ r.ret \in {"AlreadyDefeated", "OutOfBounds", "AlreadyShot"}

\* C6 witness: in a game that is not over, a shot at a defeated player's board
\* has just come back AlreadyDefeated.
GameShotRefusedDefeated ==
    /\ gphase = "play"
    /\ result.op = "shoot" /\ result.ret = "AlreadyDefeated"
    /\ Cardinality(Undefeated(game)) > 1

\* C7: in every Game state, winner() is some(p) exactly when p is the one
\* player whose board is not defeated, and none when the number of undefeated
\* boards is not one.
WinnerIsLastUndefeated ==
    gphase = "play" =>
        IF Cardinality(Undefeated(game)) = 1
        THEN \E p \in Undefeated(game) : Game_winner(game) = <<p>>
        ELSE Game_winner(game) = <<>>

\* C7 witness: a game of three players has a winner.
ThreePlayerGameWon ==
    /\ gphase = "play"
    /\ Cardinality(DOMAIN game.boards) = 3
    /\ Cardinality(Undefeated(game)) = 1
    /\ Game_winner(game) # <<>>

\* C8: when the target board's shoot returns Defeated(id), Game.shoot returns
\* Victory(id) if exactly one undefeated player is left after the shot and
\* Defeated(id) otherwise; Miss, Hit and Sunk come back unchanged; Victory
\* comes back on no other path.
GameShootOutcome ==
    gphase = "play" =>
        \A target \in Players, c \in GameCoords :
            LET r == Game_shoot(game, target, c)
            IN  r.ok =>
                  /\ target \in DOMAIN game.boards
                  /\ LET br == shoot(game.boards[target], c)
                     IN  /\ br.ok
                         /\ r.ship = br.ship
                         /\ br.ret = "Defeated" =>
                              r.ret = IF Cardinality(Undefeated(r.game)) = 1
                                      THEN "Victory" ELSE "Defeated"
                         /\ br.ret \in {"Miss", "Hit", "Sunk"} => r.ret = br.ret
                         /\ r.ret = "Victory" => br.ret = "Defeated"

\* C8 witness: a shot has just defeated one player while two others are left.
GameShotDefeated ==
    /\ gphase = "play"
    /\ result.op = "shoot" /\ result.ret = "Defeated"
    /\ Cardinality(Undefeated(game)) = 2

\* C9: once winner() is some(p) it stays some(p): from then on no step changes
\* the game, and every shoot returns AlreadyOver.
WinnerIsFinal ==
    [][(gphase = "play" /\ Game_winner(game) # <<>>) =>
          /\ gphase' = "play"
          /\ Game_winner(game') = Game_winner(game)
          /\ game' = game
          /\ result'.op = "shoot" /\ result'.ret = "AlreadyOver"]_vars

\* C9 witness: a shot at a game that has a winner has just been refused.
ShotAfterGameOver ==
    /\ gphase = "play"
    /\ Game_winner(game) # <<>>
    /\ result.op = "shoot" /\ result.ret = "AlreadyOver"

\* C10: no step of a Game changes the turn: current, turn_order and so the
\* player current() names are the same before and after every shoot, whether
\* it succeeds or fails.
ShootKeepsTurn ==
    [][gphase = "play" =>
          /\ game'.current = game.current
          /\ game'.turn_order = game.turn_order
          /\ Game_current(game') = Game_current(game)]_vars

\* C10 witness: a shot has just hit a ship and the game goes on.
GameShotHit ==
    /\ gphase = "play"
    /\ result.op = "shoot" /\ result.ret = "Hit"
    /\ Game_winner(game) = <<>>

\* The game of the scenario: P1 is current, P2 second, each with the
\* Destroyer on (0,0), (1,0) and no cell shot yet.
DuelJustStarted ==
    /\ gphase = "play"
    /\ game.turn_order = <<"P1", "P2">>
    /\ \A p \in DOMAIN game.boards :
          /\ game.boards[p].ships = [id \in {"Destroyer"} |-> << <<0, 0>>, <<1, 0>> >>]
          /\ \A c \in InCoords(game.boards[p].grid.dim) : ~HitAt(game.boards[p], c)

\* C11: in that game the shots P1 at P2 on (5,5), P2 at P1 on (0,0), P1 at P2
\* on (0,0), P2 at P1 on (1,0) return Miss, Hit(Destroyer), Hit(Destroyer),
\* Victory(Destroyer) in this order; then the winner is P2 and every further
\* shoot returns AlreadyOver.
DuelScenario ==
    DuelJustStarted =>
        LET r1 == Game_shoot(game,    "P2", <<5, 5>>)
            r2 == Game_shoot(r1.game, "P1", <<0, 0>>)
            r3 == Game_shoot(r2.game, "P2", <<0, 0>>)
            r4 == Game_shoot(r3.game, "P1", <<1, 0>>)
        IN  /\ r1.ok /\ r1.ret = "Miss"
            /\ r2.ok /\ r2.ret = "Hit"     /\ r2.ship = <<"Destroyer">>
            /\ r3.ok /\ r3.ret = "Hit"     /\ r3.ship = <<"Destroyer">>
            /\ r4.ok /\ r4.ret = "Victory" /\ r4.ship = <<"Destroyer">>
            /\ Game_winner(r4.game) = <<"P2">>
            /\ \A t \in Player, c \in DuelShots :
                  LET r5 == Game_shoot(r4.game, t, c)
                  IN  ~r5.ok /\ r5.ret = "AlreadyOver"

\* The step an orientation stands for: Up is y - 1, Down y + 1, Left x - 1,
\* Right x + 1.
DirStep(dir) ==
    CASE dir = "Up"    -> <<0, -1>>
      [] dir = "Down"  -> <<0, 1>>
      [] dir = "Left"  -> <<-1, 0>>
      [] dir = "Right" -> <<1, 0>>

\* The run of len cells from c in direction dir: c, c + d, ..., c + (len-1)d.
Run(c, dir, len) ==
    [k \in 1..len |-> <<c[1] + (k - 1) * DirStep(dir)[1], c[2] + (k - 1) * DirStep(dir)[2]>>]

\* Start coordinates of place_ship calls the properties range over: the
\* cells of the board and one coordinate past the right edge.
SimpleStarts == InputCoords(RectDimensions(10, 10, FALSE, FALSE))

\* No ship of player p is placed in the setup.
BoardEmpty(gs, p) ==
    /\ \A id \in DOMAIN gs.boards[p].ships : gs.boards[p].ships[id].placement = <<>>
    /\ \A c \in InCoords(gs.boards[p].grid.dim) : ShipAt(gs.boards[p], c) = <<>>

\* C12: on the simple game's setup, a successful place_ship(player, ship,
\* start, dir) records the run of len cells from start in direction dir
\* (Up y - 1, Down y + 1, Left x - 1, Right x + 1); on an empty board
\* place_ship(Carrier, (0,0), Right) succeeds and records (0,0) .. (4,0).
PlaceShipFollowsOrientation ==
    gphase = "setup" =>
        /\ \A p \in Player, k \in 1..Len(Ship), c \in SimpleStarts, d \in Orientation :
              LET r == place_ship(game, p, Ship[k], c, d)
              IN  r.ret = "Ok" =>
                    r.game.boards[p].ships[Ship[k]].placement
                        = << Run(c, d, Ship_len(Ship[k])) >>
        /\ \A p \in Player :
              BoardEmpty(game, p) =>
                  LET r == place_ship(game, p, "Carrier", <<0, 0>>, "Right")
                  IN  /\ r.ret = "Ok"
                      /\ r.game.boards[p].ships["Carrier"].placement
                            = << <<<<0, 0>>, <<1, 0>>, <<2, 0>>, <<3, 0>>, <<4, 0>>>> >>

\* C13: on the simple game's setup, place_ship for an unplaced ship returns
\* InsufficientSpace exactly when the run of len cells from start in direction
\* dir leaves the grid, and then changes nothing; on an empty board
\* place_ship(Carrier, (7,0), Right) returns InsufficientSpace.
InsufficientSpaceIffRunLeavesGrid ==
    gphase = "setup" =>
        /\ \A p \in Player, k \in 1..Len(Ship), c \in SimpleStarts, d \in Orientation :
              game.boards[p].ships[Ship[k]].placement = <<>> =>
                  LET r    == place_ship(game, p, Ship[k], c, d)
                      run  == Run(c, d, Ship_len(Ship[k]))
                      fits == \A j \in 1..Len(run) : InBounds(game.boards[p].grid.dim, run[j])
                  IN  /\ (r.ret = "InsufficientSpace") = ~fits
                      /\ r.ret = "InsufficientSpace" => r.game = game
        /\ \A p \in Player :
              BoardEmpty(game, p) =>
                  place_ship(game, p, "Carrier", <<7, 0>>, "Right").ret = "InsufficientSpace"

\* C14: on the simple game's setup, place_ship for an unplaced ship whose run
\* from start in direction dir is in bounds and meets a cell of another ship
\* returns AlreadyOccupied and changes nothing; with the Carrier on (0,0) ..
\* (4,0), place_ship(Battleship, (2,0), Down) returns AlreadyOccupied and cell
\* (2,1) holds no ship afterwards.
OverlapIsRefused ==
    gphase = "setup" =>
        /\ \A p \in Player, k \in 1..Len(Ship), c \in SimpleStarts, d \in Orientation :
              LET b        == game.boards[p]
                  run      == Run(c, d, Ship_len(Ship[k]))
                  fits     == \A j \in 1..Len(run) : InBounds(b.grid.dim, run[j])
                  occupied == \E j \in 1..Len(run) : ShipAt(b, run[j]) # <<>>
                  r        == place_ship(game, p, Ship[k], c, d)
              IN  (b.ships[Ship[k]].placement = <<>> /\ fits /\ occupied) =>
                      r.ret = "AlreadyOccupied" /\ r.game = game
        /\ \A p \in Player :
              (/\ game.boards[p].ships["Carrier"].placement # <<>>
               /\ CoordSet(game.boards[p].ships["Carrier"].placement[1])
                     = {<<x, 0>> : x \in 0..4}
               /\ game.boards[p].ships["Battleship"].placement = <<>>) =>
                  LET r == place_ship(game, p, "Battleship", <<2, 0>>, "Down")
                  IN  /\ r.ret = "AlreadyOccupied"
                      /\ ShipAt(r.game.boards[p], <<2, 1>>) = <<>>

\* C15 as stated: after a successful shoot(c) on a play Board, a second
\* shoot(c) returns AlreadyShot and leaves the grid unchanged.
SecondShotAlreadyShot ==
    bphase = "play" =>
        \A c \in InCoords(board.grid.dim) :
            LET r1 == shoot(board, c)
            IN  r1.ok =>
                  LET r2 == shoot(r1.board, c)
                  IN  ~r2.ok /\ r2.ret = "AlreadyShot" /\ r2.board = r1.board

\* C15 amended: after a successful shoot(c) on a play Board, a second shoot(c)
\* is refused and leaves the grid unchanged; the reason is AlreadyShot, unless
\* the first shot defeated the board, and then it is AlreadyDefeated.
SecondShotRefused ==
    bphase = "play" =>
        \A c \in InCoords(board.grid.dim) :
            LET r1 == shoot(board, c)
            IN  r1.ok =>
                  LET r2 == shoot(r1.board, c)
                  IN  /\ ~r2.ok
                      /\ r2.ret = IF r1.ret = "Defeated" THEN "AlreadyDefeated"
                                  ELSE "AlreadyShot"
                      /\ r2.board = r1.board
                      /\ \A d \in InCoords(board.grid.dim) :
                            HitAt(r2.board, d) = (d = c \/ HitAt(board, d))

\* C15 witness: a cell that was shot before has just been shot again, on a
\* board that is not defeated.
ShotSameCellTwice ==
    /\ bphase = "play"
    /\ result.op = "shoot" /\ result.ret = "AlreadyShot"
    /\ ~AllShipsHit(board)

\* C16: on a play Board, sunk() of a ship is true exactly when every cell of
\* its placement is hit, and defeated() is true exactly when every ship is sunk.
SunkAndDefeatedMeaning ==
    bphase = "play" =>
        /\ \A id \in DOMAIN board.ships : sunk(board, id) = AllHit(board, id)
        /\ defeated(board) = AllShipsHit(board)
        /\ defeated(board) = (\A id \in DOMAIN board.ships : sunk(board, id))

\* C16 witness: of two ships one is hit on some but not all of its cells and
\* the other is sunk.
OneSunkOneDamaged ==
    /\ bphase = "play"
    /\ \E a, b \in DOMAIN board.ships :
          /\ a # b
          /\ AllHit(board, a)
          /\ ~AllHit(board, b)
          /\ \E c \in CoordSet(board.ships[b]) : HitAt(board, c)

\* C17: on a BoardSetup where place(id, P) succeeds, a following unplace(id)
\* returns some(P) and gives back the grid and the placements as they were
\* before the place; one more unplace(id) returns none and changes nothing.
UnplaceUndoesPlace ==
    bphase = "setup" =>
        \A id \in DOMAIN board.ships, p \in Projections(board.grid.dim) :
            LET r == place(board, id, p)
            IN  r.ret = "Ok" =>
                  LET u1 == unplace(r.board, id)
                      u2 == unplace(u1.board, id)
                  IN  /\ u1.ret = <<p>>
                      /\ u1.board.grid = board.grid
                      /\ u1.board.ships = board.ships
                      /\ u2.ret = <<>>
                      /\ u2.board = u1.board

\* C17 witness: an unplace has just returned a placement and left the grid
\* without any ship.
UnplacedLastShip ==
    /\ bphase = "setup"
    /\ result.op = "unplace" /\ result.ret = "Some"
    /\ \A c \in InCoords(board.grid.dim) : ShipAt(board, c) = <<>>
    /\ \A id \in DOMAIN board.ships : board.ships[id].placement = <<>>

\* C18: ready() is true exactly when a ship is registered and every registered
\* ship has a placement; start() returns a Board exactly when ready() holds,
\* with the grid and the placements of the setup, and otherwise returns the
\* setup unchanged; every ship of a play Board has a placement.
StartOnlyWhenReady ==
    /\ bphase = "setup" =>
          LET all_placed == /\ DOMAIN board.ships # {}
                            /\ \A id \in DOMAIN board.ships :
                                  board.ships[id].placement # <<>>
              r == start(board)
          IN  /\ ready(board) = all_placed
              /\ r.ok = all_placed
              /\ ~r.ok => r.board = board
              /\ r.ok => /\ r.board.grid = board.grid
                         /\ DOMAIN r.board.ships = DOMAIN board.ships
                         /\ \A id \in DOMAIN board.ships :
                               r.board.ships[id] = board.ships[id].placement[1]
    /\ bphase = "play" =>
          /\ DOMAIN board.ships # {}
          /\ \A id \in DOMAIN board.ships :
                /\ Len(board.ships[id]) >= 1
                /\ CellsNaming(board, id) = CoordSet(board.ships[id])
          /\ \A c \in InCoords(board.grid.dim) :
                ShipAt(board, c) # <<>> => ShipAt(board, c)[1] \in DOMAIN board.ships

\* C18 witness: start has just been refused on a setup with one ship placed
\* and another one pending.
StartRefusedHalfPlaced ==
    /\ bphase = "setup"
    /\ result.op = "start" /\ result.ret = "Err"
    /\ \E a, b \in DOMAIN board.ships :
          board.ships[a].placement # <<>> /\ board.ships[b].placement = <<>>

\* A BoardSetup is ready, read from its fields.
BoardAllPlaced(b) ==
    DOMAIN b.ships # {} /\ \A id \in DOMAIN b.ships : b.ships[id].placement # <<>>

\* C19: GameSetup.ready() is true exactly when two or more players have been
\* added and every board is ready; start() returns a Game exactly then, and
\* otherwise (one player only, or a board not ready) returns the setup unchanged.
GameStartOnlyWhenReady ==
    gphase = "setup" =>
        LET all_ready == /\ Cardinality(DOMAIN game.boards) >= 2
                         /\ \A pid \in DOMAIN game.boards : BoardAllPlaced(game.boards[pid])
            r == GameSetup_start(game)
        IN  /\ GameSetup_ready(game) = all_ready
            /\ r.ok = all_ready
            /\ ~r.ok => r.game = game
            /\ r.ok => DOMAIN r.game.boards = DOMAIN game.boards

\* C19 witness: start has just been refused on a setup whose only player has
\* every ship placed.
StartRefusedOnePlayer ==
    /\ gphase = "setup"
    /\ result.op = "start" /\ result.ret = "Err"
    /\ Cardinality(DOMAIN game.boards) = 1
    /\ \A pid \in DOMAIN game.boards : BoardAllPlaced(game.boards[pid])

\* turn_order lists every key of boards once, and no other id.
TurnOrderMatchesBoards(g) ==
    /\ {g.turn_order[k] : k \in 1..Len(g.turn_order)} = DOMAIN g.boards
    /\ \A j, k \in 1..Len(g.turn_order) : g.turn_order[j] = g.turn_order[k] => j = k

\* C20: turn_order lists each added player once, in the order of first
\* insertion, and has the keys of boards; a duplicate add_player returns
\* AlreadyExists and changes nothing; start() hands the same turn_order to the
\* Game with current = 0, and current always is an index into turn_order.
TurnOrderIsInsertionOrder ==
    /\ [](/\ TurnOrderMatchesBoards(game)
          /\ gphase = "play" => game.current \in 0..(Len(game.turn_order) - 1))
    /\ [][/\ (gphase = "setup" /\ result'.op = "add_player") =>
                IF result'.ret = "AlreadyExists"
                THEN game' = game
                ELSE \E pid \in Players :
                        /\ pid \notin DOMAIN game.boards
                        /\ game'.turn_order = Append(game.turn_order, pid)
                        /\ DOMAIN game'.boards = DOMAIN game.boards \cup {pid}
          /\ (gphase = "setup" /\ result'.op # "add_player") =>
                game'.turn_order = game.turn_order
          /\ (gphase = "setup" /\ gphase' = "play") => game'.current = 0]_vars

\* C20 witness: a duplicate add_player has just been rejected in a setup of
\* three players.
DuplicatePlayerRejected ==
    /\ gphase = "setup"
    /\ result.op = "add_player" /\ result.ret = "AlreadyExists"
    /\ Len(game.turn_order) = 3

\* C21: add_ship with a registered id returns AlreadyExists and leaves the
\* ship's shape and placement and the grid as they were; with a new id it
\* registers the ship with the shape given and no placement, and leaves the
\* grid and the other ships as they were.
AddShipKeepsExisting ==
    bphase = "setup" =>
        \A id \in ShipIds, len \in 1..MaxLen :
            LET r == add_ship(board, id, len)
            IN  IF id \in DOMAIN board.ships
                THEN r.ret = "AlreadyExists" /\ r.board = board
                ELSE /\ r.ret = "Ok"
                     /\ r.board.grid = board.grid
                     /\ DOMAIN r.board.ships = DOMAIN board.ships \cup {id}
                     /\ r.board.ships[id].placement = <<>>
                     /\ r.board.ships[id].shape = len
                     /\ \A other \in DOMAIN board.ships :
                           r.board.ships[other] = board.ships[other]

\* C21 witness: add_ship has just been refused for an id whose ship is placed.
AddShipRefusedForPlaced ==
    /\ bphase = "setup"
    /\ result.op = "add_ship" /\ result.ret = "AlreadyExists"
    /\ \E id \in DOMAIN board.ships : board.ships[id].placement # <<>>

\* C22: in the simple game, for every target and coordinate, the uniform
\* shoot returns neither Defeated nor UnknownPlayer nor AlreadyDefeated, so
\* simple::Game::shoot reaches none of its unreachable!() arms: a shot that
\* defeats the target's board returns Victory, and a shot at a defeated board
\* returns AlreadyOver.
SimpleShootArmsUnreachable ==
    gphase = "play" =>
        \A target \in Player, c \in SimpleStarts :
            LET u  == Game_shoot(game, target, c)
                br == shoot(game.boards[target], c)
            IN  /\ u.ret \notin {"Defeated", "UnknownPlayer", "AlreadyDefeated"}
                /\ simple_shoot(game, target, c).ret # "unreachable"
                /\ (u.ok /\ AllShipsHit(u.game.boards[target])) => u.ret = "Victory"
                /\ AllShipsHit(game.boards[target]) => (~u.ok /\ u.ret = "AlreadyOver")
                /\ (target # game.turn_order[1] /\ br.ok /\ br.ret = "Defeated")
                      => u.ret = "Victory"

\* C22 witness: a shot at the defeated player has just been refused with
\* AlreadyOver.
ShotAtDefeatedOpponent ==
    /\ gphase = "play"
    /\ result.op = "shoot" /\ result.ret = "AlreadyOver"
    /\ \E p \in Player : AllShipsHit(game.boards[p])

\* Every entry of a sequence of projections starts at c, is accepted by
\* is_valid_placement for a Line of length len, and lies in bounds.
AllValidFrom(projs, len, dim, c) ==
    \A k \in 1..Len(projs) :
        /\ projs[k][1] = c
        /\ is_valid_placement(len, projs[k], dim)
        /\ \A j \in 1..Len(projs[k]) : InBounds(dim, projs[k][j])

\* Start coordinates tried in every setup state: two corners, an inner cell
\* and a coordinate past the right edge.
ProbeStarts == {<<0, 0>>, <<9, 9>>, <<5, 5>>, <<10, 0>>}

\* C23: on the simple game's setup no call changes a board's dimensions or a
\* ship's shape; for these, for every player, ship and start coordinate (a
\* cell or out of bounds), every projection get_placements yields starts at
\* the start, passes is_valid_placement and lies in bounds; and in every setup
\* state neither place_ship nor check_placement gets InvalidProjection from
\* the board, so their unreachable!() arm is not reached.
NoInvalidProjectionOnSimple ==
    gphase = "setup" =>
        /\ \A p \in Player, k \in 1..Len(Ship) :
              /\ game.boards[p].grid.dim = RectDimensions(10, 10, FALSE, FALSE)
              /\ game.boards[p].ships[Ship[k]].shape = Ship_len(Ship[k])
        /\ result.op = "new" =>
              \A p \in Player, k \in 1..Len(Ship), c \in SimpleStarts :
                  AllValidFrom(get_placements(game.boards[p], Ship[k], c),
                               Ship_len(Ship[k]), game.boards[p].grid.dim, c)
        /\ \A p \in Player, k \in 1..Len(Ship), c \in ProbeStarts, d \in Orientation :
              /\ place_ship(game, p, Ship[k], c, d).ret # "unreachable"
              /\ simple_check_placement(game, p, Ship[k], c, d) # "unreachable"
        /\ \A m \in SimpleMoves :
              /\ place_ship(game, m[1], m[2], m[3], m[4]).ret # "unreachable"
              /\ simple_check_placement(game, m[1], m[2], m[3], m[4]) # "unreachable"

\* C23 witness: the board has just refused a projection that place_ship
\* selected, because a cell of it is occupied.
SelectedProjectionOccupied ==
    /\ gphase = "setup"
    /\ result.op = "place_ship" /\ result.ret = "AlreadyOccupied"

\* check_placement and place_ship answer alike for this call in this setup.
SameAnswer(gs, p, ship, c, d) ==
    simple_check_placement(gs, p, ship, c, d) = place_ship(gs, p, ship, c, d).ret

\* C24: in every setup state of the simple game check_placement returns what
\* place_ship would return for the same player, ship, start and orientation
\* ("Ok" for success, else the same reason), and a check_placement call leaves
\* the setup as it was.
CheckPlacementAgreesWithPlaceShip ==
    /\ [](gphase = "setup" =>
            /\ \A p \in Player, k \in 1..Len(Ship), c \in ProbeStarts, d \in Orientation :
                  SameAnswer(game, p, Ship[k], c, d)
            /\ \A m \in SimpleMoves : SameAnswer(game, m[1], m[2], m[3], m[4]))
    /\ [][result'.op = "check_placement" => (game' = game /\ gphase' = gphase)]_vars

\* C24 witness: check_placement has just answered AlreadyOccupied.
CheckPlacementFoundOverlap ==
    /\ gphase = "setup"
    /\ result.op = "check_placement" /\ result.ret = "AlreadyOccupied"

\* C25: while a board is set up no cell is hit; start() hands the grid and the
\* placements of the BoardSetup to the Board as they are; on a Board no step
\* changes a cell's ship field or a placement, and after any shots the cells
\* naming a ship still are exactly the cells of its placement.
PhasesKeepShotsAndPlacementsApart ==
    /\ [](/\ bphase = "setup" =>
                \A c \in InCoords(board.grid.dim) : ~HitAt(board, c)
          /\ bphase = "play" =>
                /\ \A id \in DOMAIN board.ships :
                      CellsNaming(board, id) = CoordSet(board.ships[id])
                /\ \A c \in InCoords(board.grid.dim) :
                      ShipAt(board, c) # <<>> => ShipAt(board, c)[1] \in DOMAIN board.ships)
    /\ [][/\ (bphase = "setup" /\ bphase' = "play") =>
                /\ board'.grid = board.grid
                /\ board'.ships = [id \in DOMAIN board.ships |-> board.ships[id].placement[1]]
          /\ bphase = "play" =>
                /\ bphase' = "play"
                /\ board'.ships = board.ships
                /\ board'.grid.dim = board.grid.dim
                /\ \A c \in InCoords(board.grid.dim) : ShipAt(board', c) = ShipAt(board, c)]_vars

\* C25 witness: a shot has just hit a ship that is not sunk by it.
BoardShotHit ==
    /\ bphase = "play"
    /\ result.op = "shoot" /\ result.ret = "Hit"
    /\ \E c \in CoordSet(board.ships[result.val[1]]) : ~HitAt(board, c)

\* Two cells one plain step apart, not across an edge.
PlainStep(c, d) ==
    \/ c[1] = d[1] /\ (c[2] = d[2] + 1 \/ d[2] = c[2] + 1)
    \/ c[2] = d[2] /\ (c[1] = d[1] + 1 \/ d[1] = c[1] + 1)

\* C26: for a Line ship of every length, rectangular dimensions of every
\* size with and without wrapping and every anchor, in or out of bounds, each
\* projection get_placements yields starts at the anchor and is accepted by
\* is_valid_placement.
GetPlacementsStartAtAnchorAndValid ==
    \A id \in DOMAIN board.ships : \A a \in AnchorCoords(board.grid.dim) :
        LET projs == get_placements(board, id, a)
        IN  \A k \in 1..Len(projs) :
                /\ projs[k][1] = a
                /\ is_valid_placement(board.ships[id].shape, projs[k], board.grid.dim)

\* get_placements yielded a projection that crosses a wrapped edge.
PlacementWrapsAround ==
    /\ result.op = "get_placements"
    /\ \E k \in 1..Len(result.val) : \E j \in 2..Len(result.val[k]) :
          ~PlainStep(result.val[k][j], result.val[k][j - 1])

\* C27: get_placements from an anchor out of bounds yields no projection, for
\* a Line of every length, length 1 included.
NoPlacementsOutOfBounds ==
    (result.op = "get_placements" /\ ~check_bounds(board.grid.dim, result.ret))
        => result.val = <<>>

\* Every sequence of 1..n coordinates a caller can pass on dim.
GeoProjections(dim, n) ==
    UNION {[1..m -> AnchorCoords(dim)] : m \in 1..n}

\* The validity rule as stated: the length of the Line, every cell a neighbor
\* of the one before it and colinear with the first two cells.
StatedValid(len, proj, dim) ==
    /\ Len(proj) = len
    /\ \A i \in 2..Len(proj) :
          /\ is_neighbor(dim, proj[i], proj[i - 1])
          /\ is_colinear(proj[1], proj[2], proj[i])

\* C28: is_valid_placement is true exactly when the projection has the
\* Line's length and every cell after the first is a neighbor of the cell
\* before it and colinear with the first two cells; check_placement and place
\* answer InvalidProjection for every projection that fails this rule.
ValidExactlyWhenAdjacentAndColinear ==
    \A id \in DOMAIN board.ships :
        \A proj \in GeoProjections(board.grid.dim, MaxLineLen) :
            LET len == board.ships[id].shape
            IN  /\ is_valid_placement(len, proj, board.grid.dim)
                       <=> StatedValid(len, proj, board.grid.dim)
                /\ ~StatedValid(len, proj, board.grid.dim)
                       => /\ check_placement(board, id, proj) = "InvalidProjection"
                          /\ place(board, id, proj).ret = "InvalidProjection"

\* C30: on rectangular dimensions of every width and height, every index
\* below total_size goes to a coordinate that try_linearize and linearize
\* take back to it, and try_linearize is None exactly for the coordinates
\* with x >= width or y >= height.
LinearizeRoundTrip ==
    LET dim == board.grid.dim
    IN  /\ \A i \in 0..(total_size(dim) - 1) :
              /\ try_linearize(dim, un_linearize(dim, i)) = Some(i)
              /\ linearize(dim, un_linearize(dim, i)) = i
        /\ \A x \in 0..(MaxSide + 1), y \in 0..(MaxSide + 1) :
              (try_linearize(dim, <<x, y>>) = None) <=> (x >= dim.width \/ y >= dim.height)

\* un_linearize gave the last cell of a board that is not square.
LastCellOfOblongBoard ==
    /\ result.op = "un_linearize"
    /\ board.grid.dim.width # board.grid.dim.height
    /\ result.val = <<board.grid.dim.width - 1, board.grid.dim.height - 1>>

\* What the places of the setup code that would abort rely on, on board b:
\* every recorded placement lies on the grid (the grid indexing of unplace),
\* a projection place accepts lies on the grid (the grid indexing of place),
\* and a ready board has a placement for every ship (start).
SetupSitesSafe(b) ==
    /\ \A id \in DOMAIN b.ships : \A c \in RecordedCoords(b, id) : InBounds(b.grid.dim, c)
    /\ \A id \in DOMAIN b.ships : \A p \in ProjectionsUpTo(b.grid.dim, 2) :
          place(b, id, p).ret = "Ok" => \A c \in CoordSet(p) : InBounds(b.grid.dim, c)
    /\ ready(b) => \A id \in DOMAIN b.ships : b.ships[id].placement # None

\* The same for a play Board: every ship's cells lie on the grid (the grid
\* indexing of sunk) and every cell names a ship of the board (the unwrap of
\* get_coord and shoot).
PlaySitesSafe(b) ==
    /\ \A id \in DOMAIN b.ships : \A c \in CoordSet(b.ships[id]) : InBounds(b.grid.dim, c)
    /\ \A c \in InCoords(b.grid.dim) :
          ShipAt(b, c) # None => ShipAt(b, c)[1] \in DOMAIN b.ships

\* No place of the engine that would abort is reached in a failing state:
\* those of the boards, GameSetup.start (every board of a ready setup starts),
\* Game.current (the index is inside turn_order), iter_boards (every id of
\* turn_order has a board) and Game.winner (some board is undefeated).
AbortSitesSafe ==
    /\ gphase \in {"setup", "aborted"} =>
          /\ \A pid \in DOMAIN game.boards : SetupSitesSafe(game.boards[pid])
          /\ GameSetup_ready(game) => \A pid \in DOMAIN game.boards : start(game.boards[pid]).ok
    /\ gphase = "play" =>
          /\ game.current >= 0 /\ game.current < Len(game.turn_order)
          /\ \A k \in 1..Len(game.turn_order) : game.turn_order[k] \in DOMAIN game.boards
          /\ \A pid \in DOMAIN game.boards : PlaySitesSafe(game.boards[pid])
          /\ Cardinality({pid \in DOMAIN game.boards : ~defeated(game.boards[pid])}) > 0

\* C29 as stated: no sequence of public engine calls with arbitrary
\* arguments aborts; the places that would abort are never reached in a
\* failing state and every call returns a result value.
NoEngineCallAborts ==
    /\ AbortSitesSafe
    /\ result.ret # "panic"

\* C29: no sequence of calls on a GameSetup, its BoardSetups and ship
\* entries, a Game and its Boards aborts: the places that would abort are
\* never reached in a failing state.  The only call that aborts is the
\* constructor Line::new, for the length 0.
OnlyConstructorsAbort ==
    /\ AbortSitesSafe
    /\ (result.ret = "panic" \/ gphase = "aborted") => result.op = "Line::new"

\* A three-player game has been played to its end.
ThreePlayerVictoryShot ==
    /\ gphase = "play"
    /\ Len(game.turn_order) = 3
    /\ result.op = "shoot" /\ result.ret = "Victory"

\* The cell one step (dx, dy) from c as the rule states it: the cell itself
\* when it is on the grid, the cell on the opposite edge when it is not and
\* the grid wraps on that axis, and none otherwise.
StatedNeighbor(dim, c, dx, dy) ==
    LET x == c[1] + dx
        y == c[2] + dy
    IN  IF x >= 0 /\ x < dim.width /\ y >= 0 /\ y < dim.height THEN << <<x, y>> >>
        ELSE IF (dx # 0 /\ dim.wrap_x) \/ (dy # 0 /\ dim.wrap_y)
             THEN << <<x % dim.width, y % dim.height>> >>
        ELSE <<>>

\* C31: on rectangular dimensions neighbors(c) yields nothing for a c out of
\* bounds and otherwise the neighbors Up (y-1), Down (y+1), Left (x-1),
\* Right (x+1) in this order, one that would leave the grid skipped without
\* wrapping and replaced by the cell on the opposite edge with wrapping on
\* its axis; every coordinate yielded is in bounds.
NeighborsInOrderAndInBounds ==
    LET dim == board.grid.dim
    IN  \A c \in AnchorCoords(dim) :
            /\ ~InBounds(dim, c) => neighbors(dim, c) = <<>>
            /\ InBounds(dim, c) =>
                  neighbors(dim, c) = StatedNeighbor(dim, c, 0, -1) \o StatedNeighbor(dim, c, 0, 1)
                                      \o StatedNeighbor(dim, c, -1, 0) \o StatedNeighbor(dim, c, 1, 0)
            /\ \A k \in 1..Len(neighbors(dim, c)) : InBounds(dim, neighbors(dim, c)[k])

\* neighbors of a corner of a grid at least 2 x 2 that wraps along x only:
\* no Up, then Down, the wrapped Left and Right.
NeighborsOfCornerWrapX ==
    /\ result.op = "neighbors"
    /\ board.grid.dim.wrap_x /\ ~board.grid.dim.wrap_y
    /\ board.grid.dim.width >= 3 /\ board.grid.dim.height >= 2
    /\ result.ret = <<0, 0>>
    /\ result.val = << <<0, 1>>, <<board.grid.dim.width - 1, 0>>, <<1, 0>> >>

PairwiseDistinct(proj) == \A i, j \in 1..Len(proj) : i # j => proj[i] # proj[j]

\* The chains [a, d, n2, ...] of len cells of dim as the rule states them:
\* every cell after d a neighbor of the one before it, colinear with a and d
\* and not yet in the chain.
StatedChains(dim, len, a, d) ==
    {ch \in [1..len -> InCoords(dim)] :
        /\ ch[1] = a /\ ch[2] = d
        /\ \A i \in 3..len :
              /\ is_neighbor(dim, ch[i - 1], ch[i])
              /\ is_colinear(a, d, ch[i])
              /\ \A j \in 1..(i - 1) : ch[j] # ch[i]}

\* C32: for a Line of length 1 project yields [a] alone; for a longer Line
\* it yields, for each neighbor d of the anchor a in neighbor order, the chain
\* from a through d when one exists and nothing for d otherwise, so at most
\* |neighbors(a)| projections, each of exactly len pairwise distinct cells in
\* bounds.
ProjectYieldsChainPerNeighbor ==
    result.op = "get_placements" =>
        LET dim == board.grid.dim
            len == board.ships["S1"].shape
            a   == result.ret
            ns  == neighbors(dim, a)
        IN  IF len = 1 THEN result.val = << <<a>> >>
            ELSE /\ result.val = ProjectFrom(len, dim, a, ns, 1)
                 /\ \A k \in 1..Len(ns) :
                       LET route == try_build_route(dim, len, a, ns[k])
                       IN  IF StatedChains(dim, len, a, ns[k]) = {} THEN route = None
                           ELSE route # None /\ route[1] \in StatedChains(dim, len, a, ns[k])
                 /\ Len(result.val) <= Len(ns)
                 /\ \A k \in 1..Len(result.val) :
                       /\ Len(result.val[k]) = len
                       /\ PairwiseDistinct(result.val[k])
                       /\ \A j \in 1..len : InBounds(dim, result.val[k][j])

\* C33: in the main loop of the command line game the turns rotate: after
\* one side's accepted shot the next shot is taken by the other side.
CliTurnsAlternate ==
    [][(game' # game /\ cli.last # "none") => cli'.last # cli.last]_vars

\* C34: in every Game state the current player is turn_order[0], and that
\* player's board has no hit cell and is not defeated.
CurrentPlayerNeverShot ==
    gphase = "play" =>
        LET b == game.boards[Game_current(game)]
        IN  /\ Game_current(game) = game.turn_order[1]
            /\ \A c \in InCoords(b.grid.dim) : ~HitAt(b, c)
            /\ ~defeated(b)

\* A shot at the current player has just been refused in a game in which
\* another board already has a hit cell.
SelfShotRefusedMidGame ==
    /\ gphase = "play"
    /\ result.op = "shoot" /\ result.ret = "SelfShot"
    /\ \E pid \in DOMAIN game.boards :
          \E c \in InCoords(game.boards[pid].grid.dim) : HitAt(game.boards[pid], c)

\* C35: in every Game state at least one player's board is not defeated (the
\* debug assertion remaining > 0 of winner), and no board is defeated in the
\* state start produces.
SomeBoardUndefeated ==
    /\ [](gphase = "play" =>
             Cardinality({pid \in DOMAIN game.boards : ~defeated(game.boards[pid])}) > 0)
    /\ [][(gphase = "setup" /\ gphase' = "play") =>
             \A pid \in DOMAIN game'.boards : ~defeated(game'.boards[pid])]_vars

\* A game of three players is over: one board is left undefeated.
OnlyOneBoardLeft ==
    /\ gphase = "play"
    /\ Cardinality(DOMAIN game.boards) = 3
    /\ Cardinality({pid \in DOMAIN game.boards : ~defeated(game.boards[pid])}) = 1

\* C36: an accepted Game.shoot(target, c) turns the hit flag of cell c on
\* target's board from false to true and changes nothing else: not another
\* cell of that board, not a cell of another board, no ship field, no
\* placement, not turn_order and not current.
AcceptedShotChangesOneFlag ==
    gphase = "play" =>
        \A target \in Players, c \in GameCoords :
            LET r == Game_shoot(game, target, c)
            IN  r.ok =>
                  LET b  == game.boards[target]
                      b2 == r.game.boards[target]
                      i  == c[2] * b.grid.dim.width + c[1]
                  IN  /\ InBounds(b.grid.dim, c)
                      /\ ~b.grid.cells[i].hit /\ b2.grid.cells[i].hit
                      /\ b2.grid.cells[i].ship = b.grid.cells[i].ship
                      /\ DOMAIN b2.grid.cells = DOMAIN b.grid.cells
                      /\ \A j \in DOMAIN b.grid.cells : j # i => b2.grid.cells[j] = b.grid.cells[j]
                      /\ b2.grid.dim = b.grid.dim
                      /\ b2.ships = b.ships
                      /\ DOMAIN r.game.boards = DOMAIN game.boards
                      /\ \A pid \in DOMAIN game.boards :
                            pid # target => r.game.boards[pid] = game.boards[pid]
                      /\ r.game.turn_order = game.turn_order
                      /\ r.game.current = game.current

\* A shot that sank a ship without defeating its board has just been accepted.
GameShotSunk ==
    /\ gphase = "play"
    /\ result.op = "shoot" /\ result.ret = "Sunk"

\* C37: a Game.shoot that returns an error, whichever of AlreadyOver,
\* SelfShot, UnknownPlayer, AlreadyDefeated, OutOfBounds and AlreadyShot it
\* is, leaves the game as it was: every board, turn_order, current and the
\* value of winner().
RefusedShotChangesNothing ==
    gphase = "play" =>
        \A target \in Players, c \in GameCoords :
            LET r == Game_shoot(game, target, c)
            IN  ~r.ok =>
                  /\ r.ret \in {"AlreadyOver", "SelfShot", "UnknownPlayer",
                                "AlreadyDefeated", "OutOfBounds", "AlreadyShot"}
                  /\ r.game.boards = game.boards
                  /\ r.game.turn_order = game.turn_order
                  /\ r.game.current = game.current
                  /\ Game_winner(r.game) = Game_winner(game)

\* A shot at an unshot cell of a defeated board has just been refused while
\* the game goes on.
UnshotCellOfDefeatedRefused ==
    /\ gphase = "play"
    /\ result.op = "shoot" /\ result.ret = "AlreadyDefeated"
    /\ Game_winner(game) = None
    /\ \E pid \in DOMAIN game.boards :
          /\ defeated(game.boards[pid])
          /\ \E c \in InCoords(game.boards[pid].grid.dim) : ~HitAt(game.boards[pid], c)

\* The number of cells of the boards in ps that satisfy hit = want.
RECURSIVE CountCells(_, _, _)
CountCells(g, ps, want) ==
    IF ps = {} THEN 0
    ELSE LET p == CHOOSE q \in ps : TRUE
         IN  Cardinality({c \in InCoords(g.boards[p].grid.dim) : HitAt(g.boards[p], c) = want})
                 + CountCells(g, ps \ {p}, want)

HitCount(g) == CountCells(g, DOMAIN g.boards, TRUE)

\* C38: no step of a Game takes a hit flag back, every accepted shot sets
\* the flag of one cell that was not hit, so the shots accepted in a game are
\* never more than the cells of the boards of the players other than the
\* current one; and a caller who keeps shooting at unshot cells of undefeated
\* opponents reaches a state where winner() is some.
ShotsBoundedAndGameEnds ==
    /\ [](gphase = "play" =>
             HitCount(game) <= SumOver([pid \in DOMAIN game.boards |->
                                            IF pid = Game_current(game) THEN 0
                                            ELSE total_size(game.boards[pid].grid.dim)],
                                       DOMAIN game.boards))
    /\ [][(gphase = "play" /\ gphase' = "play") =>
             /\ \A pid \in DOMAIN game.boards : \A c \in InCoords(game.boards[pid].grid.dim) :
                   HitAt(game.boards[pid], c) => HitAt(game'.boards[pid], c)
             /\ HitCount(game') = HitCount(game) + (IF game' # game THEN 1 ELSE 0)]_vars
    /\ (gphase = "play") ~> (gphase = "play" /\ Game_winner(game) # None)

\* The duel is over after a sweep that shot ten water cells on its way to
\* the second cell of the Destroyer.
DuelWonBySweep ==
    /\ gphase = "play"
    /\ Game_winner(game) # None
    /\ HitCount(game) >= 11

\* place_ship calls tried on a ship that is placed: the moves of the setup
\* and, for each ship the caller handles, every orientation from ProbeStarts.
ReplaceMoves ==
    SimpleMoves \cup {<<ps[1], ps[2], c, d>> : ps \in SimpleShips, c \in ProbeStarts,
                                               d \in Orientation}

\* C39: on the simple game's setup, place_ship for a ship that is already
\* placed returns InsufficientSpace when the run of the ship's length from
\* start in direction dir (Up y - 1, Down y + 1, Left x - 1, Right x + 1)
\* leaves the grid, so that no projection in that direction exists, and
\* AlreadyPlaced otherwise, whether or not the run is occupied; the placement
\* and the grid stay as they were.
ReplaceAnswersDirectionThenPlaced ==
    gphase = "setup" =>
        \A m \in ReplaceMoves :
            placed(game.boards[m[1]], m[2]) =>
                LET r   == place_ship(game, m[1], m[2], m[3], m[4])
                    run == Run(m[3], m[4], Ship_len(m[2]))
                IN  /\ r.ret = IF \A k \in 1..Len(run) :
                                      InBounds(game.boards[m[1]].grid.dim, run[k])
                               THEN "AlreadyPlaced" ELSE "InsufficientSpace"
                    /\ r.game = game

\* The opponents of the current player in game g that are defeated.
DefeatedOpponents(g) ==
    {p \in DOMAIN g.boards \ {Game_current(g)} : defeated(g.boards[p])}

\* The opponents of the current player in game g that are not.
StandingOpponents(g) ==
    {p \in DOMAIN g.boards \ {Game_current(g)} : ~defeated(g.boards[p])}

\* C40: in a game of three or more players the game is over only when every
\* player other than the current one is defeated; while one opponent is
\* defeated and another is not, a shot at the defeated one is refused with
\* AlreadyDefeated and changes nothing, and a shot at an unshot cell of an
\* undefeated opponent is accepted.
DefeatedOpponentDoesNotEndGame ==
    (gphase = "play" /\ Cardinality(DOMAIN game.boards) >= 3) =>
        /\ Game_winner(game) # None => StandingOpponents(game) = {}
        /\ (DefeatedOpponents(game) # {} /\ StandingOpponents(game) # {}) =>
              /\ Game_winner(game) = None
              /\ \A d \in DefeatedOpponents(game), c \in GameCoords :
                    LET r == Game_shoot(game, d, c)
                    IN  ~r.ok /\ r.ret = "AlreadyDefeated" /\ r.game = game
              /\ \A u \in StandingOpponents(game) :
                    \A c \in InCoords(game.boards[u].grid.dim) :
                        ~HitAt(game.boards[u], c) => Game_shoot(game, u, c).ok

\* With one opponent defeated, a shot at the other has just been accepted
\* and the game goes on.
ShotAcceptedAfterADefeat ==
    /\ gphase = "play"
    /\ Cardinality(DOMAIN game.boards) >= 3
    /\ result.op = "shoot" /\ result.ret \in {"Miss", "Hit", "Sunk"}
    /\ DefeatedOpponents(game) # {} /\ StandingOpponents(game) # {}

====
